---------------------------- MODULE Spec2Model ----------------------------
(***************************************************************************)
(* Model of target-mips/msa_helper.c: the integer-lane MSA helpers.        *)
(*                                                                         *)
(* Representation.  TLC integers are 32 bits wide, the helpers compute on  *)
(* int64_t/uint64_t.  A C integer object is therefore held as a sequence   *)
(* of limbs z[1..n] in 0..255 (least significant first) followed by one    *)
(* signed "top" limb z[n+1]; it denotes                                    *)
(*      z[1] + 256*z[2] + ... + 256^(n-1)*z[n] + 256^n * z[n+1].          *)
(* With n = 8, top = 0 is a uint64_t and top in {0,-1} (the sign of bit    *)
(* 63) is an int64_t.  The Z* operators are exact integer arithmetic on    *)
(* that representation; the casts u64/i64 reduce modulo 2^64 the way the   *)
(* C conversions (and the build's -fwrapv arithmetic) do.                  *)
(* A vector register wr_t is a function 0..15 -> 0..255 of its bytes, in   *)
(* the little-endian host layout the union views share.                    *)
(***************************************************************************)
EXTENDS Integers, Sequences, FiniteSets, TLC

(***************************************************************************)
(* Exact integers on limb sequences.                                       *)
(***************************************************************************)
RECURSIVE ZInt(_, _)
\* the integer v (|v| < 2^31) on n limbs
ZInt(v, n) == IF n = 0 THEN <<v>> ELSE <<v % 256>> \o ZInt(v \div 256, n - 1)

\* number of byte limbs of z
ZLen(z) == Len(z) - 1

\* the function f on 1..n as a sequence
Tup(f) == f \o <<>>

RECURSIVE ZAddC(_, _, _, _)
ZAddC(x, y, i, c) ==
    IF i = Len(x) THEN <<x[i] + y[i] + c>>
    ELSE LET s == x[i] + y[i] + c
         IN  <<s % 256>> \o ZAddC(x, y, i + 1, s \div 256)

\* x + y, exact
ZAdd(x, y) == ZAddC(x, y, 1, 0)

RECURSIVE ZSubC(_, _, _, _)
ZSubC(x, y, i, c) ==
    IF i = Len(x) THEN <<x[i] - y[i] + c>>
    ELSE LET s == x[i] - y[i] + c
         IN  <<s % 256>> \o ZSubC(x, y, i + 1, s \div 256)

\* x - y, exact
ZSub(x, y) == ZSubC(x, y, 1, 0)

\* -x, exact
ZNeg(x) == ZSub(Tup([i \in 1..Len(x) |-> 0]), x)

RECURSIVE ZCmpFrom(_, _, _)
ZCmpFrom(x, y, i) ==
    IF i = 0 THEN 0
    ELSE IF x[i] < y[i] THEN -1
    ELSE IF x[i] > y[i] THEN 1
    ELSE ZCmpFrom(x, y, i - 1)

\* -1, 0, 1 as x <, =, > y
ZCmp(x, y) == ZCmpFrom(x, y, Len(x))
ZLt(x, y) == ZCmp(x, y) < 0
ZLe(x, y) == ZCmp(x, y) <= 0
ZGt(x, y) == ZCmp(x, y) > 0
ZGe(x, y) == ZCmp(x, y) >= 0
ZIsZero(x) == \A i \in 1..Len(x) : x[i] = 0
ZIsNeg(x) == x[Len(x)] < 0

\* |x|, exact
ZAbs(x) == IF ZIsNeg(x) THEN ZNeg(x) ELSE x

\* x on n >= ZLen(x) limbs, same value
RECURSIVE ZWiden(_, _)
ZWiden(x, n) ==
    IF ZLen(x) >= n THEN x
    ELSE LET t == x[Len(x)]
         IN  ZWiden(SubSeq(x, 1, ZLen(x)) \o <<t % 256, t \div 256>>, n)

\* x reduced modulo 256^n on n limbs, as an unsigned value (top = 0)
ZLowU(x, n) == Tup([i \in 1..(n + 1) |-> IF i <= n THEN x[i] ELSE 0])

\* x reduced modulo 256^n on n limbs, read as two's complement
ZLowS(x, n) ==
    Tup([i \in 1..(n + 1) |-> IF i <= n THEN x[i]
                              ELSE IF x[n] >= 128 THEN -1 ELSE 0])

\* the low nb bytes of x zero-extended to n limbs
ZZext(x, nb, n) == Tup([i \in 1..(n + 1) |-> IF i <= nb THEN x[i] ELSE 0])

\* the low nb bytes of x sign-extended to n limbs
ZSext(x, nb, n) ==
    Tup([i \in 1..(n + 1) |-> IF i <= nb THEN x[i]
                              ELSE IF x[nb] < 128 THEN 0
                              ELSE IF i <= n THEN 255 ELSE -1])

\* column k of the schoolbook product of the low n limbs
RECURSIVE ZMulCol(_, _, _, _)
ZMulCol(x, y, k, i) ==
    IF i > k THEN 0 ELSE x[i] * y[k + 1 - i] + ZMulCol(x, y, k, i + 1)

RECURSIVE ZMulC(_, _, _, _, _)
ZMulC(x, y, n, k, c) ==
    IF k > n THEN <<>>
    ELSE LET s == ZMulCol(x, y, k, 1) + c
         IN  <<s % 256>> \o ZMulC(x, y, n, k + 1, s \div 256)

\* the low n limbs of x * y (the product modulo 256^n), top = 0
ZMulLow(x, y, n) == ZMulC(x, y, n, 1, 0) \o <<0>>

\* x * y exact, for x, y of 8 limbs with top in {0,-1}: on 16 limbs
ZMulExact(x, y) == ZLowS(ZMulLow(ZWiden(x, 16), ZWiden(y, 16), 16), 16)

RECURSIVE ZModSmallFrom(_, _, _, _)
ZModSmallFrom(x, m, i, r) ==
    IF i = 0 THEN r ELSE ZModSmallFrom(x, m, i - 1, (r * 256 + x[i]) % m)

\* x mod m for an unsigned x (top = 0) and a small m (m <= 2^16)
ZModSmall(x, m) == ZModSmallFrom(x, m, ZLen(x), 0)

(***************************************************************************)
(* Bit patterns: and, or, xor, not and shifts of the limbs.                *)
(***************************************************************************)
RECURSIVE BAnd(_, _)
BAnd(a, b) == IF a = 0 \/ b = 0 THEN 0
              ELSE (a % 2) * (b % 2) + 2 * BAnd(a \div 2, b \div 2)

BOr(a, b) == a + b - BAnd(a, b)
BXor(a, b) == a + b - 2 * BAnd(a, b)

\* the top limb of a bitwise result of two's complement operands
TopAnd(s, t) == IF s < 0 /\ t < 0 THEN -1 ELSE 0
TopOr(s, t) == IF s < 0 \/ t < 0 THEN -1 ELSE 0
TopXor(s, t) == IF (s < 0) # (t < 0) THEN -1 ELSE 0

ZAnd(x, y) ==
    Tup([i \in 1..Len(x) |-> IF i < Len(x) THEN BAnd(x[i], y[i])
                             ELSE TopAnd(x[i], y[i])])
ZOr(x, y) ==
    Tup([i \in 1..Len(x) |-> IF i < Len(x) THEN BOr(x[i], y[i])
                             ELSE TopOr(x[i], y[i])])
ZXor(x, y) ==
    Tup([i \in 1..Len(x) |-> IF i < Len(x) THEN BXor(x[i], y[i])
                             ELSE TopXor(x[i], y[i])])
ZNot(x) ==
    Tup([i \in 1..Len(x) |-> IF i < Len(x) THEN 255 - x[i]
                             ELSE IF x[i] < 0 THEN 0 ELSE -1])

RECURSIVE Pow2(_)
Pow2(k) == IF k = 0 THEN 1 ELSE 2 * Pow2(k - 1)

\* limb i of x, with the limbs above the object filled by its sign
ZLimb(x, i) == IF i < 1 THEN 0
               ELSE IF i < Len(x) THEN x[i]
               ELSE IF x[Len(x)] < 0 THEN 255 ELSE 0

\* the 64-bit pattern of x shifted left by k bits (0 <= k <= 63), top = 0
Shl64(x, k) ==
    LET q == k \div 8
        m == Pow2(k % 8)
    IN  Tup([i \in 1..9 |->
            IF i = 9 THEN 0
            ELSE ((ZLimb(x, i - q) * m) % 256)
                 + ((IF i - q - 1 >= 1 THEN x[i - q - 1] ELSE 0) * m) \div 256])

\* floor(x / 2^k) for 0 <= k <= 63: the logical shift of a uint64_t and the
\* arithmetic shift of an int64_t
Shr64(x, k) ==
    LET q == k \div 8
        m == Pow2(k % 8)
    IN  Tup([i \in 1..9 |->
            IF i = 9 THEN x[9]
            ELSE ((ZLimb(x, i + q) + 256 * ZLimb(x, i + q + 1)) \div m) % 256])

(***************************************************************************)
(* C integer objects and operators on them.                                *)
(***************************************************************************)
\* conversion to uint64_t / int64_t
u64(z) == ZLowU(z, 8)
i64(z) == ZLowS(z, 8)
\* a small C int constant or value as a 64-bit object
c64(v) == ZInt(v, 8)

RECURSIVE ZDivBits(_, _, _)
\* long division by y > 0 through the bits s[1] downto 0 of the byte xb,
\* from the partial quotient s[2] and remainder s[3] of the bits above
ZDivBits(xb, y, s) ==
    IF s[1] < 0 THEN <<s[2], s[3]>>
    ELSE LET r2 == ZAddC(s[3], s[3], 1, (xb \div Pow2(s[1])) % 2)
             t  == ZSub(r2, y)
             ge == t[Len(t)] >= 0
         IN  ZDivBits(xb, y, <<s[1] - 1,
                               ZAddC(s[2], s[2], 1, IF ge THEN 1 ELSE 0),
                               IF ge THEN t ELSE r2>>)

RECURSIVE ZDivBytes(_, _, _)
\* long division of the unsigned x by y > 0 through the bytes s[1] downto 1
\* of x; leading zero bytes leave quotient and remainder at zero
ZDivBytes(x, y, s) ==
    IF s[1] < 1 THEN <<s[2], s[3]>>
    ELSE IF x[s[1]] = 0 /\ ZIsZero(s[2]) /\ ZIsZero(s[3])
         THEN ZDivBytes(x, y, <<s[1] - 1, s[2], s[3]>>)
         ELSE LET d == ZDivBits(x[s[1]], y, <<7, s[2], s[3]>>)
              IN  ZDivBytes(x, y, <<s[1] - 1, d[1], d[2]>>)

\* uint64_t x / y and x % y, y # 0
UDiv64(x, y) == ZDivBytes(x, y, <<8, c64(0), c64(0)>>)[1]
URem64(x, y) == ZDivBytes(x, y, <<8, c64(0), c64(0)>>)[2]

\* int64_t x / y: the quotient truncated toward zero (y # 0); the one
\* overflowing case INT64_MIN / -1 wraps
SDiv64(x, y) ==
    LET q == UDiv64(ZAbs(x), ZAbs(y))
    IN  i64(IF ZIsNeg(x) # ZIsNeg(y) THEN ZNeg(q) ELSE q)

\* int64_t x % y: the remainder, with the sign of the dividend (y # 0)
SRem64(x, y) ==
    LET r == URem64(ZAbs(x), ZAbs(y))
    IN  i64(IF ZIsNeg(x) THEN ZNeg(r) ELSE r)

\* a small non-negative 64-bit object as a number (shift counts, indexes)
ZToInt(z) == z[1] + 256 * z[2]

\* C's i % n on ints: the remainder has the sign of i
CRem(i, n) == IF i >= 0 THEN i % n ELSE -((-i) % n)

(***************************************************************************)
(* Data formats and the width macros.                                      *)
(***************************************************************************)
DF_BYTE == 0
DF_HALF == 1
DF_WORD == 2
DF_DOUBLE == 3

\* width of a vector register in bits (cpu.h)
MSA_WRLEN == 128

DF_BITS(df) == Pow2(df + 3)

DF_MAX_INT(df) == i64(ZSub(i64(Shl64(c64(1), DF_BITS(df) - 1)), c64(1)))
M_MAX_INT(m) == i64(ZSub(i64(Shl64(c64(1), m - 1)), c64(1)))

DF_MIN_INT(df) == i64(ZNeg(i64(Shl64(c64(1), DF_BITS(df) - 1))))
M_MIN_INT(m) == i64(ZNeg(i64(Shl64(c64(1), m - 1))))

DF_MAX_UINT(df) == Shr64(u64(c64(-1)), 64 - DF_BITS(df))
M_MAX_UINT(m) == Shr64(u64(c64(-1)), 64 - m)

BIT_POSITION(x, df) == ZModSmall(u64(x), DF_BITS(df))

UNSIGNED(x, df) == ZAnd(u64(x), DF_MAX_UINT(df))
SIGNED(x, df) == Shr64(i64(Shl64(i64(x), 64 - DF_BITS(df))), 64 - DF_BITS(df))

DF_ELEMENTS(df, wrlen) == wrlen \div DF_BITS(df)

(***************************************************************************)
(* CPU state (CPUMIPSState) and the decoded instruction stream.            *)
(***************************************************************************)
VARIABLES
    fpr,        \* env->active_fpu.fpr[0..31].wr: register -> byte -> 0..255
    gpr,        \* env->active_tc.gpr[0..31], each a 64-bit object
    msair,      \* env->active_msa.msair
    msamodify,  \* env->active_msa.msamodify, as the set of its 1 bits
    exception,  \* "none", "EXCP_RI" (helper_raise_exception) or "abort"
    prog,       \* the decoded instructions the translated code executes
    pc,         \* index in prog of the next instruction
    pre,        \* fpr and msamodify at the entry of the last helper called
    written,    \* the <<register, byte>> the last helper called stored to
    log         \* the assignments of the last helper called to a register,
                \* to its scratch register wx or to its buffer v, in order

vars ==
    <<fpr, gpr, msair, msamodify, exception, prog, pc, pre, written, log>>

\* the assignment of n bytes from byte lo on of register reg (to = "fpr"),
\* of the scratch register wx or of the buffer v (reg = 0)
Assigned(to, reg, lo, n) == [to |-> to, reg |-> reg, lo |-> lo, n |-> n]

\* WRP bit of MSAIR (cpu.h)
MSAIR_WRP_BIT == 131072

\* bytes of a lane of format df
LaneBytes(df) == DF_BITS(df) \div 8

\* the byte sequence (least significant first) of lane i, w bytes wide
Lane(pwr, w, i) == Tup([k \in 1..w |-> pwr[i * w + k - 1]])

\* the register with lane i, w bytes wide, set to the low w bytes of val
SetLane(pwr, w, i, val) ==
    [j \in 0..15 |-> IF j >= i * w /\ j < (i + 1) * w
                     THEN val[j - i * w + 1] ELSE pwr[j]]

\* the union views of wr_t: b[i], h[i], w[i], d[i] as byte sequences
B(pwr, i) == Lane(pwr, 1, i)
H(pwr, i) == Lane(pwr, 2, i)
W(pwr, i) == Lane(pwr, 4, i)
D(pwr, i) == Lane(pwr, 8, i)
BR(pwr, i) == B(pwr, i)
BL(pwr, i) == B(pwr, i + MSA_WRLEN \div 16)
HR(pwr, i) == H(pwr, i)
HL(pwr, i) == H(pwr, i + MSA_WRLEN \div 32)
WR(pwr, i) == W(pwr, i)
WL(pwr, i) == W(pwr, i + MSA_WRLEN \div 64)
DR(pwr, i) == D(pwr, i)
DL(pwr, i) == D(pwr, i + MSA_WRLEN \div 128)

\* lane i, w bytes wide, of register wreg = val; the bytes stored to are
\* recorded in e.written
StoreLane(e, wreg, w, i, val) ==
    [e EXCEPT !.fpr[wreg] = SetLane(@, w, i, val),
              !.written = @ \cup {<<wreg, j>> : j \in (i * w)..((i + 1) * w - 1)},
              !.log = Append(@, Assigned("fpr", wreg, i * w, w))]

\* msa_check_index with every limit one too small
msa_check_index_short(df, n) ==
    CASE df = DF_BYTE   -> IF n < 0 \/ n > MSA_WRLEN \div 8 - 2
                           THEN "EXCP_RI" ELSE "none"
      [] df = DF_HALF   -> IF n < 0 \/ n > MSA_WRLEN \div 16 - 2
                           THEN "EXCP_RI" ELSE "none"
      [] df = DF_WORD   -> IF n < 0 \/ n > MSA_WRLEN \div 32 - 2
                           THEN "EXCP_RI" ELSE "none"
      [] df = DF_DOUBLE -> IF n < 0 \/ n > MSA_WRLEN \div 64 - 2
                           THEN "EXCP_RI" ELSE "none"
      [] OTHER          -> "abort"

\* outcome of msa_check_index for the index n (an int converted to
\* uint32_t, so a negative n is a huge index)
msa_check_index(df, n) ==
    CASE df = DF_BYTE   -> IF n < 0 \/ n > MSA_WRLEN \div 8 - 1
                           THEN "EXCP_RI" ELSE "none"
      [] df = DF_HALF   -> IF n < 0 \/ n > MSA_WRLEN \div 16 - 1
                           THEN "EXCP_RI" ELSE "none"
      [] df = DF_WORD   -> IF n < 0 \/ n > MSA_WRLEN \div 32 - 1
                           THEN "EXCP_RI" ELSE "none"
      [] df = DF_DOUBLE -> IF n < 0 \/ n > MSA_WRLEN \div 64 - 1
                           THEN "EXCP_RI" ELSE "none"
      [] OTHER          -> "abort"

\* env after helper_raise_exception / assert(0): control leaves the helper
Raise(e, x) == [e EXCEPT !.exception = x]

\* the accessors return [exception, val]: val is meaningful when the index
\* check let the access through
msa_load_wr_elem_i64(e, wreg, df, i) ==
    LET n == CRem(i, DF_ELEMENTS(df, MSA_WRLEN))
        x == msa_check_index(df, n)
    IN  IF x # "none" THEN [exception |-> x, val |-> c64(0)]
        ELSE [exception |-> "none",
              val |-> ZZext(Lane(e.fpr[wreg], LaneBytes(df), n),
                            LaneBytes(df), 8)]

msa_load_wr_elem_s64(e, wreg, df, i) ==
    LET n == CRem(i, DF_ELEMENTS(df, MSA_WRLEN))
        x == msa_check_index(df, n)
    IN  IF x # "none" THEN [exception |-> x, val |-> c64(0)]
        ELSE [exception |-> "none",
              val |-> ZSext(Lane(e.fpr[wreg], LaneBytes(df), n),
                            LaneBytes(df), 8)]

\* msa_store_wr_elem storing the whole 64-bit val whatever the format
msa_store_wr_elem_wide(e, val, wreg, df, i) ==
    LET n == CRem(i, DF_ELEMENTS(df, MSA_WRLEN))
        x == msa_check_index(df, n)
        lo == n * LaneBytes(df)
    IN  IF x # "none" THEN Raise(e, x)
        ELSE [e EXCEPT
                 !.fpr[wreg] = [j \in 0..15 |->
                     IF j >= lo /\ j < lo + 8 THEN val[j - lo + 1] ELSE @[j]],
                 !.written = @ \cup {<<wreg, j>> : j \in {k \in lo..(lo + 7) : k <= 15}},
                 !.log = Append(@, Assigned("fpr", wreg, lo, 8))]

\* msa_store_wr_elem storing the high bits of val: (val >> (64 - W))
msa_store_wr_elem_high(e, val, wreg, df, i) ==
    LET n == CRem(i, DF_ELEMENTS(df, MSA_WRLEN))
        x == msa_check_index(df, n)
    IN  IF x # "none" THEN Raise(e, x)
        ELSE StoreLane(e, wreg, LaneBytes(df), n,
                       [k \in 1..LaneBytes(df) |-> val[8 - LaneBytes(df) + k]])

msa_store_wr_elem(e, val, wreg, df, i) ==
    LET n == CRem(i, DF_ELEMENTS(df, MSA_WRLEN))
        x == msa_check_index(df, n)
    IN  IF x # "none" THEN Raise(e, x)
        ELSE StoreLane(e, wreg, LaneBytes(df), n, val)

(***************************************************************************)
(* The shape shared by the helpers.  Inside a helper the state it works on *)
(* is a record e = [fpr, msamodify, exception, written, log]; once         *)
(* e.exception is not "none" control has left the helper and nothing more  *)
(* is executed.                                                            *)
(***************************************************************************)
\* for (i = 0; i < MSA_WRLEN / df_bits; i++) Body
ForLanes(e0, df, Body(_, _)) ==
    LET df_bits == 8 * Pow2(df)
        n == MSA_WRLEN \div df_bits
        st[i \in 0..n] ==
            IF i = 0 THEN e0
            ELSE LET p == st[i - 1]
                 IN  IF p.exception # "none" THEN p ELSE Body(p, i - 1)
    IN  st[n]

\* ts = LS(ws), tt = LT(wt), td = K(df, ts, tt), store td in wd
Lane_ws_wt(e, c, i, LS(_, _, _, _), LT(_, _, _, _), K(_, _, _)) ==
    LET ts == LS(e, c.ws, c.df, i)
        tt == LT(e, c.wt, c.df, i)
    IN  IF ts.exception # "none" THEN Raise(e, ts.exception)
        ELSE IF tt.exception # "none" THEN Raise(e, tt.exception)
        ELSE msa_store_wr_elem(e, K(c.df, ts.val, tt.val), c.wd, c.df, i)

\* ts = LS(ws), td = K(df, ts, imm), store td in wd
Lane_ws_imm(e, c, i, LS(_, _, _, _), K(_, _, _), imm) ==
    LET ts == LS(e, c.ws, c.df, i)
    IN  IF ts.exception # "none" THEN Raise(e, ts.exception)
        ELSE msa_store_wr_elem(e, K(c.df, ts.val, imm), c.wd, c.df, i)

\* ts = LS(ws), tt = LT(wt), td = LD(wd), td = K(df, td, ts, tt), store td
Lane_ws_wt_wd(e, c, i, LS(_, _, _, _), LT(_, _, _, _), LD(_, _, _, _),
              K(_, _, _, _)) ==
    LET ts == LS(e, c.ws, c.df, i)
        tt == LT(e, c.wt, c.df, i)
        td == LD(e, c.wd, c.df, i)
    IN  IF ts.exception # "none" THEN Raise(e, ts.exception)
        ELSE IF tt.exception # "none" THEN Raise(e, tt.exception)
        ELSE IF td.exception # "none" THEN Raise(e, td.exception)
        ELSE msa_store_wr_elem(e, K(c.df, td.val, ts.val, tt.val),
                               c.wd, c.df, i)

\* ts = LS(ws), td = LD(wd), td = K(df, td, ts, imm), store td
Lane_ws_wd_imm(e, c, i, LS(_, _, _, _), LD(_, _, _, _), K(_, _, _, _), imm) ==
    LET ts == LS(e, c.ws, c.df, i)
        td == LD(e, c.wd, c.df, i)
    IN  IF ts.exception # "none" THEN Raise(e, ts.exception)
        ELSE IF td.exception # "none" THEN Raise(e, td.exception)
        ELSE msa_store_wr_elem(e, K(c.df, td.val, ts.val, imm),
                               c.wd, c.df, i)

\* the mask update without the shift: msamodify |= wd
WrpUpdate_noshift(e, wd) ==
    IF e.exception # "none" THEN e
    ELSE IF BAnd(msair, MSAIR_WRP_BIT) # 0
         THEN [e EXCEPT !.msamodify =
                   @ \cup {b \in 0..4 : (wd \div Pow2(b)) % 2 = 1}]
         ELSE e

\* the mask update as an assignment: msamodify = (1 << wd)
WrpUpdate_assign(e, wd) ==
    IF e.exception # "none" THEN e
    ELSE IF BAnd(msair, MSAIR_WRP_BIT) # 0
         THEN [e EXCEPT !.msamodify = {wd}]
         ELSE e

\* if (env->active_msa.msair & MSAIR_WRP_BIT) msamodify |= (1 << wd)
WrpUpdate(e, wd) ==
    IF e.exception # "none" THEN e
    ELSE IF BAnd(msair, MSAIR_WRP_BIT) # 0
         THEN [e EXCEPT !.msamodify = @ \cup {wd}]
         ELSE e

\* the call of a helper by the translated code for the instruction at pc
Helper(op, Body(_, _)) ==
    /\ exception = "none"
    /\ pc <= Len(prog)
    /\ prog[pc].op = op
    /\ LET e == Body([fpr |-> fpr, msamodify |-> msamodify,
                      exception |-> "none", written |-> {},
                      log |-> <<>>], prog[pc])
       IN  /\ fpr' = e.fpr
           /\ msamodify' = e.msamodify
           /\ exception' = e.exception
           /\ written' = e.written
           /\ log' = e.log
    /\ pre' = [fpr |-> fpr, msamodify |-> msamodify]
    /\ pc' = pc + 1
    /\ UNCHANGED <<gpr, msair, prog>>

(***************************************************************************)
(* Additions and subtractions.                                             *)
(***************************************************************************)
msa_add_a_df(df, arg1, arg2) ==
    LET abs_arg1 == u64(IF ZGe(i64(arg1), c64(0)) THEN i64(arg1)
                        ELSE i64(ZNeg(i64(arg1))))
        abs_arg2 == u64(IF ZGe(i64(arg2), c64(0)) THEN i64(arg2)
                        ELSE i64(ZNeg(i64(arg2))))
    IN  i64(u64(ZAdd(abs_arg1, abs_arg2)))

helper_msa_add_a_df ==
    Helper("add_a_df", LAMBDA e, c :
        WrpUpdate(ForLanes(e, c.df, LAMBDA s, i :
            Lane_ws_wt(s, c, i, msa_load_wr_elem_s64, msa_load_wr_elem_s64,
                       msa_add_a_df)), c.wd))

helper_msa_addv_df ==
    Helper("addv_df", LAMBDA e, c :
        WrpUpdate(ForLanes(e, c.df, LAMBDA s, i :
            Lane_ws_wt(s, c, i, msa_load_wr_elem_s64, msa_load_wr_elem_s64,
                       LAMBDA df, ts, tt : i64(ZAdd(i64(ts), i64(tt))))), c.wd))

helper_msa_addvi_df ==
    Helper("addvi_df", LAMBDA e, c :
        WrpUpdate(ForLanes(e, c.df, LAMBDA s, i :
            Lane_ws_imm(s, c, i, msa_load_wr_elem_s64,
                        LAMBDA df, ts, u5 : i64(ZAdd(i64(ts), i64(u5))), c64(c.u5))), c.wd))

helper_msa_subv_df ==
    Helper("subv_df", LAMBDA e, c :
        WrpUpdate(ForLanes(e, c.df, LAMBDA s, i :
            Lane_ws_wt(s, c, i, msa_load_wr_elem_s64, msa_load_wr_elem_s64,
                       LAMBDA df, ts, tt : i64(ZSub(i64(ts), i64(tt))))), c.wd))

helper_msa_subvi_df ==
    Helper("subvi_df", LAMBDA e, c :
        WrpUpdate(ForLanes(e, c.df, LAMBDA s, i :
            Lane_ws_imm(s, c, i, msa_load_wr_elem_s64,
                        LAMBDA df, ts, u5 : i64(ZSub(i64(ts), i64(u5))), c64(c.u5))), c.wd))

\* msa_adds_a_df without the test of the absolute values against max_int
msa_adds_a_df_noguard(df, arg1, arg2) ==
    LET max_int  == u64(DF_MAX_INT(df))
        abs_arg1 == u64(IF ZGe(i64(arg1), c64(0)) THEN i64(arg1)
                        ELSE i64(ZNeg(i64(arg1))))
        abs_arg2 == u64(IF ZGe(i64(arg2), c64(0)) THEN i64(arg2)
                        ELSE i64(ZNeg(i64(arg2))))
    IN  i64(IF ZLt(abs_arg1, u64(ZSub(max_int, abs_arg2)))
            THEN u64(ZAdd(abs_arg1, abs_arg2)) ELSE max_int)

msa_adds_a_df(df, arg1, arg2) ==
    LET max_int  == u64(DF_MAX_INT(df))
        abs_arg1 == u64(IF ZGe(i64(arg1), c64(0)) THEN i64(arg1)
                        ELSE i64(ZNeg(i64(arg1))))
        abs_arg2 == u64(IF ZGe(i64(arg2), c64(0)) THEN i64(arg2)
                        ELSE i64(ZNeg(i64(arg2))))
    IN  IF ZGt(abs_arg1, max_int) \/ ZGt(abs_arg2, max_int)
        THEN i64(max_int)
        ELSE i64(IF ZLt(abs_arg1, u64(ZSub(max_int, abs_arg2)))
                 THEN u64(ZAdd(abs_arg1, abs_arg2)) ELSE max_int)

helper_msa_adds_a_df ==
    Helper("adds_a_df", LAMBDA e, c :
        WrpUpdate(ForLanes(e, c.df, LAMBDA s, i :
            Lane_ws_wt(s, c, i, msa_load_wr_elem_s64, msa_load_wr_elem_s64,
                       msa_adds_a_df)), c.wd))

\* the sum without saturation
msa_adds_s_df_wrap(df, arg1, arg2) == i64(ZAdd(i64(arg1), i64(arg2)))

msa_adds_s_df(df, arg1, arg2) ==
    LET a1      == i64(arg1)
        a2      == i64(arg2)
        max_int == DF_MAX_INT(df)
        min_int == DF_MIN_INT(df)
    IN  IF ZLt(a1, c64(0))
        THEN IF ZLt(i64(ZSub(min_int, a1)), a2)
             THEN i64(ZAdd(a1, a2)) ELSE min_int
        ELSE IF ZLt(a2, i64(ZSub(max_int, a1)))
             THEN i64(ZAdd(a1, a2)) ELSE max_int

helper_msa_adds_s_df ==
    Helper("adds_s_df", LAMBDA e, c :
        WrpUpdate(ForLanes(e, c.df, LAMBDA s, i :
            Lane_ws_wt(s, c, i, msa_load_wr_elem_s64, msa_load_wr_elem_s64,
                       msa_adds_s_df)), c.wd))

\* msa_adds_u_df saturating at the signed maximum
msa_adds_u_df_smax(df, arg1, arg2) ==
    LET max_uint == u64(DF_MAX_INT(df))
        u_arg1   == UNSIGNED(u64(arg1), df)
        u_arg2   == UNSIGNED(u64(arg2), df)
    IN  IF ZLt(u_arg1, u64(ZSub(max_uint, u_arg2)))
        THEN u64(ZAdd(u_arg1, u_arg2)) ELSE max_uint

msa_adds_u_df(df, arg1, arg2) ==
    LET max_uint == DF_MAX_UINT(df)
        u_arg1   == UNSIGNED(u64(arg1), df)
        u_arg2   == UNSIGNED(u64(arg2), df)
    IN  IF ZLt(u_arg1, u64(ZSub(max_uint, u_arg2)))
        THEN u64(ZAdd(u_arg1, u_arg2)) ELSE max_uint

helper_msa_adds_u_df ==
    Helper("adds_u_df", LAMBDA e, c :
        WrpUpdate(ForLanes(e, c.df, LAMBDA s, i :
            Lane_ws_wt(s, c, i, msa_load_wr_elem_i64, msa_load_wr_elem_i64,
                       msa_adds_u_df)), c.wd))

msa_subs_s_df(df, arg1, arg2) ==
    LET a1      == i64(arg1)
        a2      == i64(arg2)
        max_int == DF_MAX_INT(df)
        min_int == DF_MIN_INT(df)
    IN  IF ZGt(a2, c64(0))
        THEN IF ZLt(i64(ZAdd(min_int, a2)), a1)
             THEN i64(ZSub(a1, a2)) ELSE min_int
        ELSE IF ZLt(a1, i64(ZAdd(max_int, a2)))
             THEN i64(ZSub(a1, a2)) ELSE max_int

helper_msa_subs_s_df ==
    Helper("subs_s_df", LAMBDA e, c :
        WrpUpdate(ForLanes(e, c.df, LAMBDA s, i :
            Lane_ws_wt(s, c, i, msa_load_wr_elem_s64, msa_load_wr_elem_s64,
                       msa_subs_s_df)), c.wd))

msa_subs_u_df(df, arg1, arg2) ==
    LET u_arg1 == UNSIGNED(i64(arg1), df)
        u_arg2 == UNSIGNED(i64(arg2), df)
    IN  i64(IF ZGt(u_arg1, u_arg2) THEN u64(ZSub(u_arg1, u_arg2))
            ELSE c64(0))

helper_msa_subs_u_df ==
    Helper("subs_u_df", LAMBDA e, c :
        WrpUpdate(ForLanes(e, c.df, LAMBDA s, i :
            Lane_ws_wt(s, c, i, msa_load_wr_elem_i64, msa_load_wr_elem_i64,
                       msa_subs_u_df)), c.wd))

\* msa_subsuu_s_df on the sign-extended lanes as they were loaded, without
\* UNSIGNED
msa_subsuu_s_df_signed(df, arg1, arg2) ==
    LET u_arg1  == u64(i64(arg1))
        u_arg2  == u64(i64(arg2))
        max_int == DF_MAX_INT(df)
        min_int == DF_MIN_INT(df)
    IN  IF ZGt(u_arg1, u_arg2)
        THEN IF ZLt(u64(ZSub(u_arg1, u_arg2)), u64(max_int))
             THEN i64(u64(ZSub(u_arg1, u_arg2))) ELSE max_int
        ELSE IF ZLt(u64(ZSub(u_arg2, u_arg1)), u64(i64(ZNeg(min_int))))
             THEN i64(u64(ZSub(u_arg1, u_arg2))) ELSE min_int

msa_subsuu_s_df(df, arg1, arg2) ==
    LET u_arg1  == UNSIGNED(i64(arg1), df)
        u_arg2  == UNSIGNED(i64(arg2), df)
        max_int == DF_MAX_INT(df)
        min_int == DF_MIN_INT(df)
    IN  IF ZGt(u_arg1, u_arg2)
        THEN IF ZLt(u64(ZSub(u_arg1, u_arg2)), u64(max_int))
             THEN i64(u64(ZSub(u_arg1, u_arg2))) ELSE max_int
        ELSE IF ZLt(u64(ZSub(u_arg2, u_arg1)), u64(i64(ZNeg(min_int))))
             THEN i64(u64(ZSub(u_arg1, u_arg2))) ELSE min_int

helper_msa_subsuu_s_df ==
    Helper("subsuu_s_df", LAMBDA e, c :
        WrpUpdate(ForLanes(e, c.df, LAMBDA s, i :
            Lane_ws_wt(s, c, i, msa_load_wr_elem_s64, msa_load_wr_elem_s64,
                       msa_subsuu_s_df)), c.wd))

\* msa_subsus_u_df with the sum for a negative arg2 not saturated
msa_subsus_u_df_nosat(df, arg1, arg2) ==
    LET u_arg1   == UNSIGNED(i64(arg1), df)
    IN  IF ZGe(i64(arg2), c64(0))
        THEN LET u_arg2 == u64(i64(arg2))
             IN  IF ZGt(u_arg1, u_arg2)
                 THEN i64(u64(ZSub(u_arg1, u_arg2))) ELSE c64(0)
        ELSE LET u_arg2 == u64(i64(ZNeg(i64(arg2))))
             IN  i64(u64(ZAdd(u_arg1, u_arg2)))

msa_subsus_u_df(df, arg1, arg2) ==
    LET u_arg1   == UNSIGNED(i64(arg1), df)
        max_uint == DF_MAX_UINT(df)
    IN  IF ZGe(i64(arg2), c64(0))
        THEN LET u_arg2 == u64(i64(arg2))
             IN  IF ZGt(u_arg1, u_arg2)
                 THEN i64(u64(ZSub(u_arg1, u_arg2))) ELSE c64(0)
        ELSE LET u_arg2 == u64(i64(ZNeg(i64(arg2))))
             IN  IF ZLt(u_arg1, u64(ZSub(max_uint, u_arg2)))
                 THEN i64(u64(ZAdd(u_arg1, u_arg2))) ELSE i64(max_uint)

helper_msa_subsus_u_df ==
    Helper("subsus_u_df", LAMBDA e, c :
        WrpUpdate(ForLanes(e, c.df, LAMBDA s, i :
            Lane_ws_wt(s, c, i, msa_load_wr_elem_s64, msa_load_wr_elem_s64,
                       msa_subsus_u_df)), c.wd))

(***************************************************************************)
(* Byte-immediate logic.  b[i] is an int8_t; the operators below work on   *)
(* its value promoted to a 64-bit object and store the low byte back.      *)
(***************************************************************************)
\* for (i = wrlen / bits; i--;) Body: the indexes in descending order
AllElements(e0, n, Body(_, _)) ==
    LET st[k \in 0..n] ==
            IF k = 0 THEN e0
            ELSE LET p == st[k - 1]
                 IN  IF p.exception # "none" THEN p ELSE Body(p, n - k)
    IN  st[n]

ALL_B_ELEMENTS(e0, wrlen, Body(_, _)) == AllElements(e0, wrlen \div 8, Body)
ALL_H_ELEMENTS(e0, wrlen, Body(_, _)) == AllElements(e0, wrlen \div 16, Body)
ALL_W_ELEMENTS(e0, wrlen, Body(_, _)) == AllElements(e0, wrlen \div 32, Body)
ALL_D_ELEMENTS(e0, wrlen, Body(_, _)) == AllElements(e0, wrlen \div 64, Body)
ALL_Q_ELEMENTS(e0, wrlen, Body(_, _)) == AllElements(e0, wrlen \div 128, Body)

\* msa_move_v(pwd, pws) for a source held in a local wr_t
msa_move_v(e, pwd, pws) ==
    ALL_D_ELEMENTS(e, MSA_WRLEN, LAMBDA s, i : StoreLane(s, pwd, 8, i, D(pws, i)))

\* the value of the int8_t b[i] of register wreg
LoadB(e, wreg, i) == ZSext(B(e.fpr[wreg], i), 1, 8)

\* b[i] of register wreg = val (converted to int8_t)
StoreB(e, wreg, i, val) == StoreLane(e, wreg, 1, i, val)

helper_msa_andi_b ==
    Helper("andi_b", LAMBDA e, c :
        WrpUpdate(ALL_B_ELEMENTS(e, MSA_WRLEN, LAMBDA s, i :
            StoreB(s, c.wd, i, ZAnd(LoadB(s, c.ws, i), c64(c.i8)))), c.wd))

helper_msa_ori_b ==
    Helper("ori_b", LAMBDA e, c :
        WrpUpdate(ALL_B_ELEMENTS(e, MSA_WRLEN, LAMBDA s, i :
            StoreB(s, c.wd, i, ZOr(LoadB(s, c.ws, i), c64(c.i8)))), c.wd))

helper_msa_nori_b ==
    Helper("nori_b", LAMBDA e, c :
        WrpUpdate(ALL_B_ELEMENTS(e, MSA_WRLEN, LAMBDA s, i :
            StoreB(s, c.wd, i, ZNot(ZOr(LoadB(s, c.ws, i), c64(c.i8))))),
                  c.wd))

helper_msa_xori_b ==
    Helper("xori_b", LAMBDA e, c :
        WrpUpdate(ALL_B_ELEMENTS(e, MSA_WRLEN, LAMBDA s, i :
            StoreB(s, c.wd, i, ZXor(LoadB(s, c.ws, i), c64(c.i8)))), c.wd))

(***************************************************************************)
(* Absolute difference and averages.                                       *)
(***************************************************************************)
msa_asub_s_df(df, arg1, arg2) ==
    IF ZLt(i64(arg1), i64(arg2))
    THEN i64(u64(i64(ZSub(i64(arg2), i64(arg1)))))
    ELSE i64(u64(i64(ZSub(i64(arg1), i64(arg2)))))

helper_msa_asub_s_df ==
    Helper("asub_s_df", LAMBDA e, c :
        WrpUpdate(ForLanes(e, c.df, LAMBDA s, i :
            Lane_ws_wt(s, c, i, msa_load_wr_elem_s64, msa_load_wr_elem_s64,
                       msa_asub_s_df)), c.wd))

msa_asub_u_df(df, arg1, arg2) ==
    LET u_arg1 == UNSIGNED(u64(arg1), df)
        u_arg2 == UNSIGNED(u64(arg2), df)
    IN  IF ZLt(u_arg1, u_arg2) THEN u64(ZSub(u_arg2, u_arg1))
        ELSE u64(ZSub(u_arg1, u_arg2))

helper_msa_asub_u_df ==
    Helper("asub_u_df", LAMBDA e, c :
        WrpUpdate(ForLanes(e, c.df, LAMBDA s, i :
            Lane_ws_wt(s, c, i, msa_load_wr_elem_i64, msa_load_wr_elem_i64,
                       msa_asub_u_df)), c.wd))

\* the average as (arg1 + arg2) >> 1 on int64_t
msa_ave_s_df_sum(df, arg1, arg2) ==
    i64(Shr64(i64(ZAdd(i64(arg1), i64(arg2))), 1))

msa_ave_s_df(df, arg1, arg2) ==
    LET a1 == i64(arg1)
        a2 == i64(arg2)
    IN  i64(ZAdd(i64(ZAdd(Shr64(a1, 1), Shr64(a2, 1))),
                 ZAnd(ZAnd(a1, a2), c64(1))))

helper_msa_ave_s_df ==
    Helper("ave_s_df", LAMBDA e, c :
        WrpUpdate(ForLanes(e, c.df, LAMBDA s, i :
            Lane_ws_wt(s, c, i, msa_load_wr_elem_s64, msa_load_wr_elem_s64,
                       msa_ave_s_df)), c.wd))

msa_ave_u_df(df, arg1, arg2) ==
    LET u_arg1 == UNSIGNED(u64(arg1), df)
        u_arg2 == UNSIGNED(u64(arg2), df)
    IN  u64(ZAdd(u64(ZAdd(Shr64(u_arg1, 1), Shr64(u_arg2, 1))),
                 ZAnd(ZAnd(u_arg1, u_arg2), c64(1))))

helper_msa_ave_u_df ==
    Helper("ave_u_df", LAMBDA e, c :
        WrpUpdate(ForLanes(e, c.df, LAMBDA s, i :
            Lane_ws_wt(s, c, i, msa_load_wr_elem_i64, msa_load_wr_elem_i64,
                       msa_ave_u_df)), c.wd))

msa_aver_s_df(df, arg1, arg2) ==
    LET a1 == i64(arg1)
        a2 == i64(arg2)
    IN  i64(ZAdd(i64(ZAdd(Shr64(a1, 1), Shr64(a2, 1))),
                 ZAnd(ZOr(a1, a2), c64(1))))

helper_msa_aver_s_df ==
    Helper("aver_s_df", LAMBDA e, c :
        WrpUpdate(ForLanes(e, c.df, LAMBDA s, i :
            Lane_ws_wt(s, c, i, msa_load_wr_elem_s64, msa_load_wr_elem_s64,
                       msa_aver_s_df)), c.wd))

msa_aver_u_df(df, arg1, arg2) ==
    LET u_arg1 == UNSIGNED(u64(arg1), df)
        u_arg2 == UNSIGNED(u64(arg2), df)
    IN  u64(ZAdd(u64(ZAdd(Shr64(u_arg1, 1), Shr64(u_arg2, 1))),
                 ZAnd(ZOr(u_arg1, u_arg2), c64(1))))

helper_msa_aver_u_df ==
    Helper("aver_u_df", LAMBDA e, c :
        WrpUpdate(ForLanes(e, c.df, LAMBDA s, i :
            Lane_ws_wt(s, c, i, msa_load_wr_elem_i64, msa_load_wr_elem_i64,
                       msa_aver_u_df)), c.wd))

(***************************************************************************)
(* Single-bit operations and bit inserts.                                  *)
(***************************************************************************)
\* msa_bclr_df with the bit index reduced modulo 64 instead of DF_BITS(df)
msa_bclr_df_wide(df, arg1, arg2) ==
    LET b_arg2 == ZModSmall(u64(i64(arg2)), 64)
    IN  i64(UNSIGNED(ZAnd(i64(arg1), ZNot(i64(Shl64(c64(1), b_arg2)))), df))

msa_bclr_df(df, arg1, arg2) ==
    LET b_arg2 == BIT_POSITION(i64(arg2), df)
    IN  i64(UNSIGNED(ZAnd(i64(arg1), ZNot(i64(Shl64(c64(1), b_arg2)))), df))

helper_msa_bclr_df ==
    Helper("bclr_df", LAMBDA e, c :
        WrpUpdate(ForLanes(e, c.df, LAMBDA s, i :
            Lane_ws_wt(s, c, i, msa_load_wr_elem_s64, msa_load_wr_elem_s64,
                       msa_bclr_df)), c.wd))

helper_msa_bclri_df ==
    Helper("bclri_df", LAMBDA e, c :
        WrpUpdate(ForLanes(e, c.df, LAMBDA s, i :
            Lane_ws_imm(s, c, i, msa_load_wr_elem_s64,
                        msa_bclr_df, c64(c.m))), c.wd))

msa_bneg_df(df, arg1, arg2) ==
    LET b_arg2 == BIT_POSITION(i64(arg2), df)
    IN  i64(UNSIGNED(ZXor(i64(arg1), i64(Shl64(c64(1), b_arg2))), df))

helper_msa_bneg_df ==
    Helper("bneg_df", LAMBDA e, c :
        WrpUpdate(ForLanes(e, c.df, LAMBDA s, i :
            Lane_ws_wt(s, c, i, msa_load_wr_elem_s64, msa_load_wr_elem_s64,
                       msa_bneg_df)), c.wd))

helper_msa_bnegi_df ==
    Helper("bnegi_df", LAMBDA e, c :
        WrpUpdate(ForLanes(e, c.df, LAMBDA s, i :
            Lane_ws_imm(s, c, i, msa_load_wr_elem_s64,
                        msa_bneg_df, c64(c.m))), c.wd))

msa_bset_df(df, arg1, arg2) ==
    LET b_arg2 == BIT_POSITION(i64(arg2), df)
    IN  i64(UNSIGNED(ZOr(i64(arg1), i64(Shl64(c64(1), b_arg2))), df))

helper_msa_bset_df ==
    Helper("bset_df", LAMBDA e, c :
        WrpUpdate(ForLanes(e, c.df, LAMBDA s, i :
            Lane_ws_wt(s, c, i, msa_load_wr_elem_s64, msa_load_wr_elem_s64,
                       msa_bset_df)), c.wd))

helper_msa_bseti_df ==
    Helper("bseti_df", LAMBDA e, c :
        WrpUpdate(ForLanes(e, c.df, LAMBDA s, i :
            Lane_ws_imm(s, c, i, msa_load_wr_elem_s64,
                        msa_bset_df, c64(c.m))), c.wd))

\* msa_binsl_df with a field of BIT_POSITION(arg2, df) bits, one too few
msa_binsl_df_short(df, dest, arg1, arg2) ==
    LET u_arg1 == UNSIGNED(i64(arg1), df)
        u_dest == UNSIGNED(i64(dest), df)
        sh_d   == BIT_POSITION(i64(arg2), df)
        sh_a   == DF_BITS(df) - sh_d
    IN  IF sh_d = 0 THEN i64(u_dest)
        ELSE i64(ZOr(
               UNSIGNED(Shr64(UNSIGNED(Shl64(u_dest, sh_d), df), sh_d), df),
               UNSIGNED(Shl64(UNSIGNED(Shr64(u_arg1, sh_a), df), sh_a), df)))

msa_binsl_df(df, dest, arg1, arg2) ==
    LET u_arg1 == UNSIGNED(i64(arg1), df)
        u_dest == UNSIGNED(i64(dest), df)
        sh_d   == BIT_POSITION(i64(arg2), df) + 1
        sh_a   == DF_BITS(df) - sh_d
    IN  IF sh_d = DF_BITS(df) THEN i64(u_arg1)
        ELSE i64(ZOr(
               UNSIGNED(Shr64(UNSIGNED(Shl64(u_dest, sh_d), df), sh_d), df),
               UNSIGNED(Shl64(UNSIGNED(Shr64(u_arg1, sh_a), df), sh_a), df)))

helper_msa_binsl_df ==
    Helper("binsl_df", LAMBDA e, c :
        WrpUpdate(ForLanes(e, c.df, LAMBDA s, i :
            Lane_ws_wt_wd(s, c, i, msa_load_wr_elem_s64, msa_load_wr_elem_s64,
                          msa_load_wr_elem_s64, msa_binsl_df)), c.wd))

helper_msa_binsli_df ==
    Helper("binsli_df", LAMBDA e, c :
        WrpUpdate(ForLanes(e, c.df, LAMBDA s, i :
            Lane_ws_wd_imm(s, c, i, msa_load_wr_elem_s64, msa_load_wr_elem_s64,
                           msa_binsl_df, c64(c.m))), c.wd))

msa_binsr_df(df, dest, arg1, arg2) ==
    LET u_arg1 == UNSIGNED(i64(arg1), df)
        u_dest == UNSIGNED(i64(dest), df)
        sh_d   == BIT_POSITION(i64(arg2), df) + 1
        sh_a   == DF_BITS(df) - sh_d
    IN  IF sh_d = DF_BITS(df) THEN i64(u_arg1)
        ELSE i64(ZOr(
               UNSIGNED(Shl64(UNSIGNED(Shr64(u_dest, sh_d), df), sh_d), df),
               UNSIGNED(Shr64(UNSIGNED(Shl64(u_arg1, sh_a), df), sh_a), df)))

helper_msa_binsr_df ==
    Helper("binsr_df", LAMBDA e, c :
        WrpUpdate(ForLanes(e, c.df, LAMBDA s, i :
            Lane_ws_wt_wd(s, c, i, msa_load_wr_elem_s64, msa_load_wr_elem_s64,
                          msa_load_wr_elem_s64, msa_binsr_df)), c.wd))

helper_msa_binsri_df ==
    Helper("binsri_df", LAMBDA e, c :
        WrpUpdate(ForLanes(e, c.df, LAMBDA s, i :
            Lane_ws_wd_imm(s, c, i, msa_load_wr_elem_s64, msa_load_wr_elem_s64,
                           msa_binsr_df, c64(c.m))), c.wd))

BIT_MOVE_IF_NOT_ZERO(dest, arg1, arg2, df) ==
    UNSIGNED(ZOr(ZAnd(dest, ZNot(arg2)), ZAnd(arg1, arg2)), df)

helper_msa_bmnzi_b ==
    Helper("bmnzi_b", LAMBDA e, c :
        WrpUpdate(ALL_B_ELEMENTS(e, MSA_WRLEN, LAMBDA s, i :
            StoreB(s, c.wd, i,
                   BIT_MOVE_IF_NOT_ZERO(LoadB(s, c.wd, i), LoadB(s, c.ws, i),
                                        c64(c.i8), DF_BYTE))), c.wd))

BIT_MOVE_IF_ZERO(dest, arg1, arg2, df) ==
    UNSIGNED(ZOr(ZAnd(dest, arg2), ZAnd(arg1, ZNot(arg2))), df)

helper_msa_bmzi_b ==
    Helper("bmzi_b", LAMBDA e, c :
        WrpUpdate(ALL_B_ELEMENTS(e, MSA_WRLEN, LAMBDA s, i :
            StoreB(s, c.wd, i,
                   BIT_MOVE_IF_ZERO(LoadB(s, c.wd, i), LoadB(s, c.ws, i),
                                    c64(c.i8), DF_BYTE))), c.wd))

BIT_SELECT(dest, arg1, arg2, df) ==
    UNSIGNED(ZOr(ZAnd(arg1, ZNot(dest)), ZAnd(arg2, dest)), df)

helper_msa_bseli_b ==
    Helper("bseli_b", LAMBDA e, c :
        WrpUpdate(ALL_B_ELEMENTS(e, MSA_WRLEN, LAMBDA s, i :
            StoreB(s, c.wd, i,
                   BIT_SELECT(LoadB(s, c.wd, i), LoadB(s, c.ws, i),
                              c64(c.i8), DF_BYTE))), c.wd))

(***************************************************************************)
(* Comparisons.                                                            *)
(***************************************************************************)
msa_ceq_df(df, arg1, arg2) ==
    IF i64(arg1) = i64(arg2) THEN c64(-1) ELSE c64(0)

helper_msa_ceq_df ==
    Helper("ceq_df", LAMBDA e, c :
        WrpUpdate(ForLanes(e, c.df, LAMBDA s, i :
            Lane_ws_wt(s, c, i, msa_load_wr_elem_s64, msa_load_wr_elem_s64,
                       msa_ceq_df)), c.wd))

helper_msa_ceqi_df ==
    Helper("ceqi_df", LAMBDA e, c :
        WrpUpdate(ForLanes(e, c.df, LAMBDA s, i :
            Lane_ws_imm(s, c, i, msa_load_wr_elem_s64,
                        msa_ceq_df, c64(c.i5))), c.wd))

msa_cle_s_df(df, arg1, arg2) ==
    IF ZLe(i64(arg1), i64(arg2)) THEN c64(-1) ELSE c64(0)

helper_msa_cle_s_df ==
    Helper("cle_s_df", LAMBDA e, c :
        WrpUpdate(ForLanes(e, c.df, LAMBDA s, i :
            Lane_ws_wt(s, c, i, msa_load_wr_elem_s64, msa_load_wr_elem_s64,
                       msa_cle_s_df)), c.wd))

helper_msa_clei_s_df ==
    Helper("clei_s_df", LAMBDA e, c :
        WrpUpdate(ForLanes(e, c.df, LAMBDA s, i :
            Lane_ws_imm(s, c, i, msa_load_wr_elem_s64,
                        msa_cle_s_df, c64(c.s5))), c.wd))

msa_cle_u_df(df, arg1, arg2) ==
    LET u_arg1 == UNSIGNED(i64(arg1), df)
        u_arg2 == UNSIGNED(i64(arg2), df)
    IN  IF ZLe(u_arg1, u_arg2) THEN c64(-1) ELSE c64(0)

helper_msa_cle_u_df ==
    Helper("cle_u_df", LAMBDA e, c :
        WrpUpdate(ForLanes(e, c.df, LAMBDA s, i :
            Lane_ws_wt(s, c, i, msa_load_wr_elem_i64, msa_load_wr_elem_i64,
                       msa_cle_u_df)), c.wd))

helper_msa_clei_u_df ==
    Helper("clei_u_df", LAMBDA e, c :
        WrpUpdate(ForLanes(e, c.df, LAMBDA s, i :
            Lane_ws_imm(s, c, i, msa_load_wr_elem_i64,
                        msa_cle_u_df, c64(c.u5))), c.wd))

msa_clt_s_df(df, arg1, arg2) ==
    IF ZLt(i64(arg1), i64(arg2)) THEN c64(-1) ELSE c64(0)

helper_msa_clt_s_df ==
    Helper("clt_s_df", LAMBDA e, c :
        WrpUpdate(ForLanes(e, c.df, LAMBDA s, i :
            Lane_ws_wt(s, c, i, msa_load_wr_elem_s64, msa_load_wr_elem_s64,
                       msa_clt_s_df)), c.wd))

helper_msa_clti_s_df ==
    Helper("clti_s_df", LAMBDA e, c :
        WrpUpdate(ForLanes(e, c.df, LAMBDA s, i :
            Lane_ws_imm(s, c, i, msa_load_wr_elem_s64,
                        msa_clt_s_df, c64(c.s5))), c.wd))

msa_clt_u_df(df, arg1, arg2) ==
    LET u_arg1 == UNSIGNED(i64(arg1), df)
        u_arg2 == UNSIGNED(i64(arg2), df)
    IN  IF ZLt(u_arg1, u_arg2) THEN c64(-1) ELSE c64(0)

helper_msa_clt_u_df ==
    Helper("clt_u_df", LAMBDA e, c :
        WrpUpdate(ForLanes(e, c.df, LAMBDA s, i :
            Lane_ws_wt(s, c, i, msa_load_wr_elem_i64, msa_load_wr_elem_i64,
                       msa_clt_u_df)), c.wd))

helper_msa_clti_u_df ==
    Helper("clti_u_df", LAMBDA e, c :
        WrpUpdate(ForLanes(e, c.df, LAMBDA s, i :
            Lane_ws_imm(s, c, i, msa_load_wr_elem_s64,
                        msa_clt_u_df, c64(c.u5))), c.wd))

(***************************************************************************)
(* Horizontal operations and dot products on the two halves of a lane.     *)
(***************************************************************************)
SIGNED_EVEN(a, df) ==
    Shr64(i64(Shl64(i64(a), 64 - DF_BITS(df) \div 2)),
          64 - DF_BITS(df) \div 2)
UNSIGNED_EVEN(a, df) ==
    Shr64(u64(Shl64(u64(a), 64 - DF_BITS(df) \div 2)),
          64 - DF_BITS(df) \div 2)

SIGNED_ODD(a, df) ==
    Shr64(i64(Shl64(i64(a), 64 - DF_BITS(df))), 64 - DF_BITS(df) \div 2)
UNSIGNED_ODD(a, df) ==
    Shr64(u64(Shl64(u64(a), 64 - DF_BITS(df))), 64 - DF_BITS(df) \div 2)

\* int64_t e = SIGNED_EVEN(a, df); int64_t o = SIGNED_ODD(a, df): <<e, o>>
SIGNED_EXTRACT(a, df) == <<i64(SIGNED_EVEN(a, df)), i64(SIGNED_ODD(a, df))>>
UNSIGNED_EXTRACT(a, df) ==
    <<i64(UNSIGNED_EVEN(a, df)), i64(UNSIGNED_ODD(a, df))>>

\* int64_t x * y
Mul64(x, y) == i64(ZMulLow(x, y, 8))

msa_hadd_s_df(df, arg1, arg2) ==
    i64(ZAdd(SIGNED_ODD(i64(arg1), df), SIGNED_EVEN(i64(arg2), df)))

helper_msa_hadd_s_df ==
    Helper("hadd_s_df", LAMBDA e, c :
        WrpUpdate(ForLanes(e, c.df, LAMBDA s, i :
            Lane_ws_wt(s, c, i, msa_load_wr_elem_s64, msa_load_wr_elem_s64,
                       msa_hadd_s_df)), c.wd))

msa_hadd_u_df(df, arg1, arg2) ==
    i64(u64(ZAdd(UNSIGNED_ODD(i64(arg1), df), UNSIGNED_EVEN(i64(arg2), df))))

helper_msa_hadd_u_df ==
    Helper("hadd_u_df", LAMBDA e, c :
        WrpUpdate(ForLanes(e, c.df, LAMBDA s, i :
            Lane_ws_wt(s, c, i, msa_load_wr_elem_i64, msa_load_wr_elem_i64,
                       msa_hadd_u_df)), c.wd))

msa_hsub_s_df(df, arg1, arg2) ==
    i64(ZSub(SIGNED_ODD(i64(arg1), df), SIGNED_EVEN(i64(arg2), df)))

helper_msa_hsub_s_df ==
    Helper("hsub_s_df", LAMBDA e, c :
        WrpUpdate(ForLanes(e, c.df, LAMBDA s, i :
            Lane_ws_wt(s, c, i, msa_load_wr_elem_s64, msa_load_wr_elem_s64,
                       msa_hsub_s_df)), c.wd))

msa_hsub_u_df(df, arg1, arg2) ==
    i64(u64(ZSub(UNSIGNED_ODD(i64(arg1), df), UNSIGNED_EVEN(i64(arg2), df))))

helper_msa_hsub_u_df ==
    Helper("hsub_u_df", LAMBDA e, c :
        WrpUpdate(ForLanes(e, c.df, LAMBDA s, i :
            Lane_ws_wt(s, c, i, msa_load_wr_elem_i64, msa_load_wr_elem_i64,
                       msa_hsub_u_df)), c.wd))

msa_dotp_s_df(df, arg1, arg2) ==
    LET x1 == SIGNED_EXTRACT(i64(arg1), df)
        x2 == SIGNED_EXTRACT(i64(arg2), df)
    IN  i64(ZAdd(Mul64(x1[1], x2[1]), Mul64(x1[2], x2[2])))

helper_msa_dotp_s_df ==
    Helper("dotp_s_df", LAMBDA e, c :
        WrpUpdate(ForLanes(e, c.df, LAMBDA s, i :
            Lane_ws_wt(s, c, i, msa_load_wr_elem_s64, msa_load_wr_elem_s64,
                       msa_dotp_s_df)), c.wd))

msa_dotp_u_df(df, arg1, arg2) ==
    LET x1 == UNSIGNED_EXTRACT(i64(arg1), df)
        x2 == UNSIGNED_EXTRACT(i64(arg2), df)
    IN  i64(ZAdd(Mul64(x1[1], x2[1]), Mul64(x1[2], x2[2])))

helper_msa_dotp_u_df ==
    Helper("dotp_u_df", LAMBDA e, c :
        WrpUpdate(ForLanes(e, c.df, LAMBDA s, i :
            Lane_ws_wt(s, c, i, msa_load_wr_elem_i64, msa_load_wr_elem_i64,
                       msa_dotp_u_df)), c.wd))

msa_dpadd_s_df(df, dest, arg1, arg2) ==
    LET x1 == SIGNED_EXTRACT(i64(arg1), df)
        x2 == SIGNED_EXTRACT(i64(arg2), df)
    IN  i64(ZAdd(i64(ZAdd(i64(dest), Mul64(x1[1], x2[1]))),
                 Mul64(x1[2], x2[2])))

helper_msa_dpadd_s_df ==
    Helper("dpadd_s_df", LAMBDA e, c :
        WrpUpdate(ForLanes(e, c.df, LAMBDA s, i :
            Lane_ws_wt_wd(s, c, i, msa_load_wr_elem_s64, msa_load_wr_elem_s64,
                          msa_load_wr_elem_s64, msa_dpadd_s_df)), c.wd))

msa_dpadd_u_df(df, dest, arg1, arg2) ==
    LET x1 == UNSIGNED_EXTRACT(i64(arg1), df)
        x2 == UNSIGNED_EXTRACT(i64(arg2), df)
    IN  i64(ZAdd(i64(ZAdd(i64(dest), Mul64(x1[1], x2[1]))),
                 Mul64(x1[2], x2[2])))

helper_msa_dpadd_u_df ==
    Helper("dpadd_u_df", LAMBDA e, c :
        WrpUpdate(ForLanes(e, c.df, LAMBDA s, i :
            Lane_ws_wt_wd(s, c, i, msa_load_wr_elem_i64, msa_load_wr_elem_i64,
                          msa_load_wr_elem_s64, msa_dpadd_u_df)), c.wd))

\* msa_dpsub_s_df without the parentheses around the sum of products:
\* dest - even * even + odd * odd
msa_dpsub_s_df_noparen(df, dest, arg1, arg2) ==
    LET x1 == SIGNED_EXTRACT(i64(arg1), df)
        x2 == SIGNED_EXTRACT(i64(arg2), df)
    IN  i64(ZAdd(i64(ZSub(i64(dest), Mul64(x1[1], x2[1]))),
                 Mul64(x1[2], x2[2])))

msa_dpsub_s_df(df, dest, arg1, arg2) ==
    LET x1 == SIGNED_EXTRACT(i64(arg1), df)
        x2 == SIGNED_EXTRACT(i64(arg2), df)
    IN  i64(ZSub(i64(dest),
                 i64(ZAdd(Mul64(x1[1], x2[1]), Mul64(x1[2], x2[2])))))

helper_msa_dpsub_s_df ==
    Helper("dpsub_s_df", LAMBDA e, c :
        WrpUpdate(ForLanes(e, c.df, LAMBDA s, i :
            Lane_ws_wt_wd(s, c, i, msa_load_wr_elem_s64, msa_load_wr_elem_s64,
                          msa_load_wr_elem_s64, msa_dpsub_s_df)), c.wd))

msa_dpsub_u_df(df, dest, arg1, arg2) ==
    LET x1 == UNSIGNED_EXTRACT(i64(arg1), df)
        x2 == UNSIGNED_EXTRACT(i64(arg2), df)
    IN  i64(ZSub(i64(dest),
                 i64(ZAdd(Mul64(x1[1], x2[1]), Mul64(x1[2], x2[2])))))

helper_msa_dpsub_u_df ==
    Helper("dpsub_u_df", LAMBDA e, c :
        WrpUpdate(ForLanes(e, c.df, LAMBDA s, i :
            Lane_ws_wt_wd(s, c, i, msa_load_wr_elem_i64, msa_load_wr_elem_i64,
                          msa_load_wr_elem_s64, msa_dpsub_u_df)), c.wd))

(***************************************************************************)
(* Interleave, pack and shuffle.  The kernels build the result in a local  *)
(* wr_t wx (field wx of the record, indeterminate at first) and copy it to *)
(* the destination with msa_move_v.                                        *)
(***************************************************************************)
\* the helper's state with the local wx declared
Scratch(e) ==
    [fpr |-> e.fpr, msamodify |-> e.msamodify, exception |-> e.exception,
     written |-> e.written, log |-> e.log, wx |-> [j \in 0..15 |-> -1]]

\* lane i, w bytes wide, of wx = val
SetWx(x, w, i, val) ==
    [x EXCEPT !.wx = SetLane(@, w, i, val),
              !.log = Append(@, Assigned("wx", 0, i * w, w))]

\* msa_move_v(pwd, pwx) at the end of a kernel
MoveWx(x, pwd) == msa_move_v(x, pwd, x.wx)

\* msa_ilvev_df with the even output lanes from ws and the odd ones from wt
msa_ilvev_df_swapped(e, df, pwd, pws, pwt) ==
    CASE df = DF_BYTE ->
           MoveWx(ALL_H_ELEMENTS(Scratch(e), MSA_WRLEN, LAMBDA s, i :
               SetWx(SetWx(s, 1, 2 * i, B(s.fpr[pws], 2 * i)),
                     1, 2 * i + 1, B(s.fpr[pwt], 2 * i))), pwd)
      [] df = DF_HALF ->
           MoveWx(ALL_W_ELEMENTS(Scratch(e), MSA_WRLEN, LAMBDA s, i :
               SetWx(SetWx(s, 2, 2 * i, H(s.fpr[pws], 2 * i)),
                     2, 2 * i + 1, H(s.fpr[pwt], 2 * i))), pwd)
      [] df = DF_WORD ->
           MoveWx(ALL_D_ELEMENTS(Scratch(e), MSA_WRLEN, LAMBDA s, i :
               SetWx(SetWx(s, 4, 2 * i, W(s.fpr[pws], 2 * i)),
                     4, 2 * i + 1, W(s.fpr[pwt], 2 * i))), pwd)
      [] df = DF_DOUBLE ->
           MoveWx(ALL_Q_ELEMENTS(Scratch(e), MSA_WRLEN, LAMBDA s, i :
               SetWx(SetWx(s, 8, 2 * i, D(s.fpr[pws], 2 * i)),
                     8, 2 * i + 1, D(s.fpr[pwt], 2 * i))), pwd)
      [] OTHER -> Raise(e, "abort")

msa_ilvev_df(e, df, pwd, pws, pwt) ==
    CASE df = DF_BYTE ->
           MoveWx(ALL_H_ELEMENTS(Scratch(e), MSA_WRLEN, LAMBDA s, i :
               SetWx(SetWx(s, 1, 2 * i, B(s.fpr[pwt], 2 * i)),
                     1, 2 * i + 1, B(s.fpr[pws], 2 * i))), pwd)
      [] df = DF_HALF ->
           MoveWx(ALL_W_ELEMENTS(Scratch(e), MSA_WRLEN, LAMBDA s, i :
               SetWx(SetWx(s, 2, 2 * i, H(s.fpr[pwt], 2 * i)),
                     2, 2 * i + 1, H(s.fpr[pws], 2 * i))), pwd)
      [] df = DF_WORD ->
           MoveWx(ALL_D_ELEMENTS(Scratch(e), MSA_WRLEN, LAMBDA s, i :
               SetWx(SetWx(s, 4, 2 * i, W(s.fpr[pwt], 2 * i)),
                     4, 2 * i + 1, W(s.fpr[pws], 2 * i))), pwd)
      [] df = DF_DOUBLE ->
           MoveWx(ALL_Q_ELEMENTS(Scratch(e), MSA_WRLEN, LAMBDA s, i :
               SetWx(SetWx(s, 8, 2 * i, D(s.fpr[pwt], 2 * i)),
                     8, 2 * i + 1, D(s.fpr[pws], 2 * i))), pwd)
      [] OTHER -> Raise(e, "abort")

helper_msa_ilvev_df ==
    Helper("ilvev_df", LAMBDA e, c :
        WrpUpdate(msa_ilvev_df(e, c.df, c.wd, c.ws, c.wt), c.wd))

\* msa_ilvod_df storing each pair of lanes in wd as it is computed,
\* without the scratch register
msa_ilvod_df_direct(e, df, pwd, pws, pwt) ==
    IF df > DF_DOUBLE THEN Raise(e, "abort")
    ELSE AllElements(e, DF_ELEMENTS(df, MSA_WRLEN) \div 2, LAMBDA s, i :
             StoreLane(StoreLane(s, pwd, LaneBytes(df), 2 * i,
                           Lane(s.fpr[pwt], LaneBytes(df), 2 * i + 1)),
                       pwd, LaneBytes(df), 2 * i + 1,
                       Lane(s.fpr[pws], LaneBytes(df), 2 * i + 1)))

msa_ilvod_df(e, df, pwd, pws, pwt) ==
    CASE df = DF_BYTE ->
           MoveWx(ALL_H_ELEMENTS(Scratch(e), MSA_WRLEN, LAMBDA s, i :
               SetWx(SetWx(s, 1, 2 * i, B(s.fpr[pwt], 2 * i + 1)),
                     1, 2 * i + 1, B(s.fpr[pws], 2 * i + 1))), pwd)
      [] df = DF_HALF ->
           MoveWx(ALL_W_ELEMENTS(Scratch(e), MSA_WRLEN, LAMBDA s, i :
               SetWx(SetWx(s, 2, 2 * i, H(s.fpr[pwt], 2 * i + 1)),
                     2, 2 * i + 1, H(s.fpr[pws], 2 * i + 1))), pwd)
      [] df = DF_WORD ->
           MoveWx(ALL_D_ELEMENTS(Scratch(e), MSA_WRLEN, LAMBDA s, i :
               SetWx(SetWx(s, 4, 2 * i, W(s.fpr[pwt], 2 * i + 1)),
                     4, 2 * i + 1, W(s.fpr[pws], 2 * i + 1))), pwd)
      [] df = DF_DOUBLE ->
           MoveWx(ALL_Q_ELEMENTS(Scratch(e), MSA_WRLEN, LAMBDA s, i :
               SetWx(SetWx(s, 8, 2 * i, D(s.fpr[pwt], 2 * i + 1)),
                     8, 2 * i + 1, D(s.fpr[pws], 2 * i + 1))), pwd)
      [] OTHER -> Raise(e, "abort")

helper_msa_ilvod_df ==
    Helper("ilvod_df", LAMBDA e, c :
        WrpUpdate(msa_ilvod_df(e, c.df, c.wd, c.ws, c.wt), c.wd))

\* msa_ilvl_df storing to pwd directly, without the local wx
msa_ilvl_df_direct(e, df, pwd, pws, pwt) ==
    IF df > DF_DOUBLE THEN Raise(e, "abort")
    ELSE AllElements(e, DF_ELEMENTS(df, MSA_WRLEN) \div 2, LAMBDA s, i :
             StoreLane(StoreLane(s, pwd, LaneBytes(df), 2 * i,
                           Lane(s.fpr[pwt], LaneBytes(df),
                                i + DF_ELEMENTS(df, MSA_WRLEN) \div 2)),
                       pwd, LaneBytes(df), 2 * i + 1,
                       Lane(s.fpr[pws], LaneBytes(df),
                            i + DF_ELEMENTS(df, MSA_WRLEN) \div 2)))

msa_ilvl_df(e, df, pwd, pws, pwt) ==
    CASE df = DF_BYTE ->
           MoveWx(ALL_H_ELEMENTS(Scratch(e), MSA_WRLEN, LAMBDA s, i :
               SetWx(SetWx(s, 1, 2 * i, BL(s.fpr[pwt], i)),
                     1, 2 * i + 1, BL(s.fpr[pws], i))), pwd)
      [] df = DF_HALF ->
           MoveWx(ALL_W_ELEMENTS(Scratch(e), MSA_WRLEN, LAMBDA s, i :
               SetWx(SetWx(s, 2, 2 * i, HL(s.fpr[pwt], i)),
                     2, 2 * i + 1, HL(s.fpr[pws], i))), pwd)
      [] df = DF_WORD ->
           MoveWx(ALL_D_ELEMENTS(Scratch(e), MSA_WRLEN, LAMBDA s, i :
               SetWx(SetWx(s, 4, 2 * i, WL(s.fpr[pwt], i)),
                     4, 2 * i + 1, WL(s.fpr[pws], i))), pwd)
      [] df = DF_DOUBLE ->
           MoveWx(ALL_Q_ELEMENTS(Scratch(e), MSA_WRLEN, LAMBDA s, i :
               SetWx(SetWx(s, 8, 2 * i, DL(s.fpr[pwt], i)),
                     8, 2 * i + 1, DL(s.fpr[pws], i))), pwd)
      [] OTHER -> Raise(e, "abort")

helper_msa_ilvl_df ==
    Helper("ilvl_df", LAMBDA e, c :
        WrpUpdate(msa_ilvl_df(e, c.df, c.wd, c.ws, c.wt), c.wd))

msa_ilvr_df(e, df, pwd, pws, pwt) ==
    CASE df = DF_BYTE ->
           MoveWx(ALL_H_ELEMENTS(Scratch(e), MSA_WRLEN, LAMBDA s, i :
               SetWx(SetWx(s, 1, 2 * i, BR(s.fpr[pwt], i)),
                     1, 2 * i + 1, BR(s.fpr[pws], i))), pwd)
      [] df = DF_HALF ->
           MoveWx(ALL_W_ELEMENTS(Scratch(e), MSA_WRLEN, LAMBDA s, i :
               SetWx(SetWx(s, 2, 2 * i, HR(s.fpr[pwt], i)),
                     2, 2 * i + 1, HR(s.fpr[pws], i))), pwd)
      [] df = DF_WORD ->
           MoveWx(ALL_D_ELEMENTS(Scratch(e), MSA_WRLEN, LAMBDA s, i :
               SetWx(SetWx(s, 4, 2 * i, WR(s.fpr[pwt], i)),
                     4, 2 * i + 1, WR(s.fpr[pws], i))), pwd)
      [] df = DF_DOUBLE ->
           MoveWx(ALL_Q_ELEMENTS(Scratch(e), MSA_WRLEN, LAMBDA s, i :
               SetWx(SetWx(s, 8, 2 * i, DR(s.fpr[pwt], i)),
                     8, 2 * i + 1, DR(s.fpr[pws], i))), pwd)
      [] OTHER -> Raise(e, "abort")

helper_msa_ilvr_df ==
    Helper("ilvr_df", LAMBDA e, c :
        WrpUpdate(msa_ilvr_df(e, c.df, c.wd, c.ws, c.wt), c.wd))

\* msa_pckev_df with the right half from ws and the left half from wt
msa_pckev_df_swapped(e, df, pwd, pws, pwt) ==
    CASE df = DF_BYTE ->
           MoveWx(ALL_H_ELEMENTS(Scratch(e), MSA_WRLEN, LAMBDA s, i :
               SetWx(SetWx(s, 1, i, B(s.fpr[pws], 2 * i)),
                     1, i + MSA_WRLEN \div 16, B(s.fpr[pwt], 2 * i))), pwd)
      [] df = DF_HALF ->
           MoveWx(ALL_W_ELEMENTS(Scratch(e), MSA_WRLEN, LAMBDA s, i :
               SetWx(SetWx(s, 2, i, H(s.fpr[pws], 2 * i)),
                     2, i + MSA_WRLEN \div 32, H(s.fpr[pwt], 2 * i))), pwd)
      [] df = DF_WORD ->
           MoveWx(ALL_D_ELEMENTS(Scratch(e), MSA_WRLEN, LAMBDA s, i :
               SetWx(SetWx(s, 4, i, W(s.fpr[pws], 2 * i)),
                     4, i + MSA_WRLEN \div 64, W(s.fpr[pwt], 2 * i))), pwd)
      [] df = DF_DOUBLE ->
           MoveWx(ALL_Q_ELEMENTS(Scratch(e), MSA_WRLEN, LAMBDA s, i :
               SetWx(SetWx(s, 8, i, D(s.fpr[pws], 2 * i)),
                     8, i + MSA_WRLEN \div 128, D(s.fpr[pwt], 2 * i))), pwd)
      [] OTHER -> Raise(e, "abort")

msa_pckev_df(e, df, pwd, pws, pwt) ==
    CASE df = DF_BYTE ->
           MoveWx(ALL_H_ELEMENTS(Scratch(e), MSA_WRLEN, LAMBDA s, i :
               SetWx(SetWx(s, 1, i, B(s.fpr[pwt], 2 * i)),
                     1, i + MSA_WRLEN \div 16, B(s.fpr[pws], 2 * i))), pwd)
      [] df = DF_HALF ->
           MoveWx(ALL_W_ELEMENTS(Scratch(e), MSA_WRLEN, LAMBDA s, i :
               SetWx(SetWx(s, 2, i, H(s.fpr[pwt], 2 * i)),
                     2, i + MSA_WRLEN \div 32, H(s.fpr[pws], 2 * i))), pwd)
      [] df = DF_WORD ->
           MoveWx(ALL_D_ELEMENTS(Scratch(e), MSA_WRLEN, LAMBDA s, i :
               SetWx(SetWx(s, 4, i, W(s.fpr[pwt], 2 * i)),
                     4, i + MSA_WRLEN \div 64, W(s.fpr[pws], 2 * i))), pwd)
      [] df = DF_DOUBLE ->
           MoveWx(ALL_Q_ELEMENTS(Scratch(e), MSA_WRLEN, LAMBDA s, i :
               SetWx(SetWx(s, 8, i, D(s.fpr[pwt], 2 * i)),
                     8, i + MSA_WRLEN \div 128, D(s.fpr[pws], 2 * i))), pwd)
      [] OTHER -> Raise(e, "abort")

helper_msa_pckev_df ==
    Helper("pckev_df", LAMBDA e, c :
        WrpUpdate(msa_pckev_df(e, c.df, c.wd, c.ws, c.wt), c.wd))

\* msa_pckod_df packing the even lanes
msa_pckod_df_even(e, df, pwd, pws, pwt) ==
    CASE df = DF_BYTE ->
           MoveWx(ALL_H_ELEMENTS(Scratch(e), MSA_WRLEN, LAMBDA s, i :
               SetWx(SetWx(s, 1, i, B(s.fpr[pwt], 2 * i)),
                     1, i + MSA_WRLEN \div 16, B(s.fpr[pws], 2 * i))), pwd)
      [] df = DF_HALF ->
           MoveWx(ALL_W_ELEMENTS(Scratch(e), MSA_WRLEN, LAMBDA s, i :
               SetWx(SetWx(s, 2, i, H(s.fpr[pwt], 2 * i)),
                     2, i + MSA_WRLEN \div 32, H(s.fpr[pws], 2 * i))), pwd)
      [] df = DF_WORD ->
           MoveWx(ALL_D_ELEMENTS(Scratch(e), MSA_WRLEN, LAMBDA s, i :
               SetWx(SetWx(s, 4, i, W(s.fpr[pwt], 2 * i)),
                     4, i + MSA_WRLEN \div 64, W(s.fpr[pws], 2 * i))), pwd)
      [] df = DF_DOUBLE ->
           MoveWx(ALL_Q_ELEMENTS(Scratch(e), MSA_WRLEN, LAMBDA s, i :
               SetWx(SetWx(s, 8, i, D(s.fpr[pwt], 2 * i)),
                     8, i + MSA_WRLEN \div 128, D(s.fpr[pws], 2 * i))), pwd)
      [] OTHER -> Raise(e, "abort")

msa_pckod_df(e, df, pwd, pws, pwt) ==
    CASE df = DF_BYTE ->
           MoveWx(ALL_H_ELEMENTS(Scratch(e), MSA_WRLEN, LAMBDA s, i :
               SetWx(SetWx(s, 1, i, B(s.fpr[pwt], 2 * i + 1)),
                     1, i + MSA_WRLEN \div 16, B(s.fpr[pws], 2 * i + 1))), pwd)
      [] df = DF_HALF ->
           MoveWx(ALL_W_ELEMENTS(Scratch(e), MSA_WRLEN, LAMBDA s, i :
               SetWx(SetWx(s, 2, i, H(s.fpr[pwt], 2 * i + 1)),
                     2, i + MSA_WRLEN \div 32, H(s.fpr[pws], 2 * i + 1))), pwd)
      [] df = DF_WORD ->
           MoveWx(ALL_D_ELEMENTS(Scratch(e), MSA_WRLEN, LAMBDA s, i :
               SetWx(SetWx(s, 4, i, W(s.fpr[pwt], 2 * i + 1)),
                     4, i + MSA_WRLEN \div 64, W(s.fpr[pws], 2 * i + 1))), pwd)
      [] df = DF_DOUBLE ->
           MoveWx(ALL_Q_ELEMENTS(Scratch(e), MSA_WRLEN, LAMBDA s, i :
               SetWx(SetWx(s, 8, i, D(s.fpr[pwt], 2 * i + 1)),
                     8, i + MSA_WRLEN \div 128, D(s.fpr[pws], 2 * i + 1))), pwd)
      [] OTHER -> Raise(e, "abort")

helper_msa_pckod_df ==
    Helper("pckod_df", LAMBDA e, c :
        WrpUpdate(msa_pckod_df(e, c.df, c.wd, c.ws, c.wt), c.wd))

\* msa_vshf_df testing bit 7 of the control value only (& 0x80)
msa_vshf_df_bit7(e, df, pwd, pws, pwt) ==
    LET n == MSA_WRLEN \div DF_BITS(df)
        Sel(s, i, V(_, _), w) ==
            LET d == V(s.fpr[pwd], i)
                k == BAnd(d[1], 63) % (2 * n)
            IN  SetWx(s, w, i,
                      IF BAnd(d[1], 128) # 0 THEN Tup([j \in 1..w |-> 0])
                      ELSE IF k < n THEN V(s.fpr[pwt], k)
                      ELSE V(s.fpr[pws], k - n))
    IN  CASE df = DF_BYTE ->
               MoveWx(ALL_B_ELEMENTS(Scratch(e), MSA_WRLEN, LAMBDA s, i :
                   Sel(s, i, B, 1)), pwd)
          [] df = DF_HALF ->
               MoveWx(ALL_H_ELEMENTS(Scratch(e), MSA_WRLEN, LAMBDA s, i :
                   Sel(s, i, H, 2)), pwd)
          [] df = DF_WORD ->
               MoveWx(ALL_W_ELEMENTS(Scratch(e), MSA_WRLEN, LAMBDA s, i :
                   Sel(s, i, W, 4)), pwd)
          [] df = DF_DOUBLE ->
               MoveWx(ALL_D_ELEMENTS(Scratch(e), MSA_WRLEN, LAMBDA s, i :
                   Sel(s, i, D, 8)), pwd)
          [] OTHER -> Raise(e, "abort")

msa_vshf_df(e, df, pwd, pws, pwt) ==
    LET n == MSA_WRLEN \div DF_BITS(df)
        Sel(s, i, V(_, _), w) ==
            LET d == V(s.fpr[pwd], i)
                k == BAnd(d[1], 63) % (2 * n)
            IN  SetWx(s, w, i,
                      IF BAnd(d[1], 192) # 0 THEN Tup([j \in 1..w |-> 0])
                      ELSE IF k < n THEN V(s.fpr[pwt], k)
                      ELSE V(s.fpr[pws], k - n))
    IN  CASE df = DF_BYTE ->
               MoveWx(ALL_B_ELEMENTS(Scratch(e), MSA_WRLEN, LAMBDA s, i :
                   Sel(s, i, B, 1)), pwd)
          [] df = DF_HALF ->
               MoveWx(ALL_H_ELEMENTS(Scratch(e), MSA_WRLEN, LAMBDA s, i :
                   Sel(s, i, H, 2)), pwd)
          [] df = DF_WORD ->
               MoveWx(ALL_W_ELEMENTS(Scratch(e), MSA_WRLEN, LAMBDA s, i :
                   Sel(s, i, W, 4)), pwd)
          [] df = DF_DOUBLE ->
               MoveWx(ALL_D_ELEMENTS(Scratch(e), MSA_WRLEN, LAMBDA s, i :
                   Sel(s, i, D, 8)), pwd)
          [] OTHER -> Raise(e, "abort")

helper_msa_vshf_df ==
    Helper("vshf_df", LAMBDA e, c :
        WrpUpdate(msa_vshf_df(e, c.df, c.wd, c.ws, c.wt), c.wd))

\* SHF_POS without the group base (i & 0xfc)
SHF_POS_nogroup(i, imm) == BAnd(imm \div Pow2(2 * BAnd(i, 3)), 3)

SHF_POS(i, imm) == BAnd(i, 252) + BAnd(imm \div Pow2(2 * BAnd(i, 3)), 3)

\* msa_shf_df with a case for DF_DOUBLE
msa_shf_df_double(e, df, pwd, pws, imm) ==
    CASE df = DF_BYTE ->
           MoveWx(ALL_B_ELEMENTS(Scratch(e), MSA_WRLEN, LAMBDA s, i :
               SetWx(s, 1, i, B(s.fpr[pws], SHF_POS(i, imm)))), pwd)
      [] df = DF_HALF ->
           MoveWx(ALL_H_ELEMENTS(Scratch(e), MSA_WRLEN, LAMBDA s, i :
               SetWx(s, 2, i, H(s.fpr[pws], SHF_POS(i, imm)))), pwd)
      [] df = DF_WORD ->
           MoveWx(ALL_W_ELEMENTS(Scratch(e), MSA_WRLEN, LAMBDA s, i :
               SetWx(s, 4, i, W(s.fpr[pws], SHF_POS(i, imm)))), pwd)
      [] df = DF_DOUBLE ->
           MoveWx(ALL_D_ELEMENTS(Scratch(e), MSA_WRLEN, LAMBDA s, i :
               SetWx(s, 8, i, D(s.fpr[pws], SHF_POS(i, imm) % 2))), pwd)
      [] OTHER -> Raise(e, "abort")

\* there is no case for DF_DOUBLE
msa_shf_df(e, df, pwd, pws, imm) ==
    CASE df = DF_BYTE ->
           MoveWx(ALL_B_ELEMENTS(Scratch(e), MSA_WRLEN, LAMBDA s, i :
               SetWx(s, 1, i, B(s.fpr[pws], SHF_POS(i, imm)))), pwd)
      [] df = DF_HALF ->
           MoveWx(ALL_H_ELEMENTS(Scratch(e), MSA_WRLEN, LAMBDA s, i :
               SetWx(s, 2, i, H(s.fpr[pws], SHF_POS(i, imm)))), pwd)
      [] df = DF_WORD ->
           MoveWx(ALL_W_ELEMENTS(Scratch(e), MSA_WRLEN, LAMBDA s, i :
               SetWx(s, 4, i, W(s.fpr[pws], SHF_POS(i, imm)))), pwd)
      [] OTHER -> Raise(e, "abort")

helper_msa_shf_df ==
    Helper("shf_df", LAMBDA e, c :
        WrpUpdate(msa_shf_df(e, c.df, c.wd, c.ws, c.imm), c.wd))

(***************************************************************************)
(* Multiply-accumulate, maxima and minima.                                 *)
(***************************************************************************)
msa_maddv_df(df, dest, arg1, arg2) ==
    i64(ZAdd(i64(dest), Mul64(i64(arg1), i64(arg2))))

helper_msa_maddv_df ==
    Helper("maddv_df", LAMBDA e, c :
        WrpUpdate(ForLanes(e, c.df, LAMBDA s, i :
            Lane_ws_wt_wd(s, c, i, msa_load_wr_elem_s64, msa_load_wr_elem_s64,
                          msa_load_wr_elem_s64, msa_maddv_df)), c.wd))

msa_msubv_df(df, dest, arg1, arg2) ==
    i64(ZSub(i64(dest), Mul64(i64(arg1), i64(arg2))))

helper_msa_msubv_df ==
    Helper("msubv_df", LAMBDA e, c :
        WrpUpdate(ForLanes(e, c.df, LAMBDA s, i :
            Lane_ws_wt_wd(s, c, i, msa_load_wr_elem_s64, msa_load_wr_elem_s64,
                          msa_load_wr_elem_s64, msa_msubv_df)), c.wd))

\* msa_max_a_df keeping arg1 when the absolute values are equal
msa_max_a_df_tie(df, arg1, arg2) ==
    LET abs_arg1 == u64(IF ZGe(i64(arg1), c64(0)) THEN i64(arg1)
                        ELSE i64(ZNeg(i64(arg1))))
        abs_arg2 == u64(IF ZGe(i64(arg2), c64(0)) THEN i64(arg2)
                        ELSE i64(ZNeg(i64(arg2))))
    IN  IF ZGe(abs_arg1, abs_arg2) THEN i64(arg1) ELSE i64(arg2)

msa_max_a_df(df, arg1, arg2) ==
    LET abs_arg1 == u64(IF ZGe(i64(arg1), c64(0)) THEN i64(arg1)
                        ELSE i64(ZNeg(i64(arg1))))
        abs_arg2 == u64(IF ZGe(i64(arg2), c64(0)) THEN i64(arg2)
                        ELSE i64(ZNeg(i64(arg2))))
    IN  IF ZGt(abs_arg1, abs_arg2) THEN i64(arg1) ELSE i64(arg2)

helper_msa_max_a_df ==
    Helper("max_a_df", LAMBDA e, c :
        WrpUpdate(ForLanes(e, c.df, LAMBDA s, i :
            Lane_ws_wt(s, c, i, msa_load_wr_elem_s64, msa_load_wr_elem_s64,
                       msa_max_a_df)), c.wd))

msa_max_s_df(df, arg1, arg2) ==
    IF ZGt(i64(arg1), i64(arg2)) THEN i64(arg1) ELSE i64(arg2)

helper_msa_max_s_df ==
    Helper("max_s_df", LAMBDA e, c :
        WrpUpdate(ForLanes(e, c.df, LAMBDA s, i :
            Lane_ws_wt(s, c, i, msa_load_wr_elem_s64, msa_load_wr_elem_s64,
                       msa_max_s_df)), c.wd))

helper_msa_maxi_s_df ==
    Helper("maxi_s_df", LAMBDA e, c :
        WrpUpdate(ForLanes(e, c.df, LAMBDA s, i :
            Lane_ws_imm(s, c, i, msa_load_wr_elem_s64,
                        msa_max_s_df, c64(c.s5))), c.wd))

msa_max_u_df(df, arg1, arg2) ==
    LET u_arg1 == UNSIGNED(i64(arg1), df)
        u_arg2 == UNSIGNED(i64(arg2), df)
    IN  IF ZGt(u_arg1, u_arg2) THEN i64(arg1) ELSE i64(arg2)

helper_msa_max_u_df ==
    Helper("max_u_df", LAMBDA e, c :
        WrpUpdate(ForLanes(e, c.df, LAMBDA s, i :
            Lane_ws_wt(s, c, i, msa_load_wr_elem_i64, msa_load_wr_elem_i64,
                       msa_max_u_df)), c.wd))

helper_msa_maxi_u_df ==
    Helper("maxi_u_df", LAMBDA e, c :
        WrpUpdate(ForLanes(e, c.df, LAMBDA s, i :
            Lane_ws_imm(s, c, i, msa_load_wr_elem_i64,
                        msa_max_u_df, c64(c.u5))), c.wd))

msa_min_a_df(df, arg1, arg2) ==
    LET abs_arg1 == u64(IF ZGe(i64(arg1), c64(0)) THEN i64(arg1)
                        ELSE i64(ZNeg(i64(arg1))))
        abs_arg2 == u64(IF ZGe(i64(arg2), c64(0)) THEN i64(arg2)
                        ELSE i64(ZNeg(i64(arg2))))
    IN  IF ZLt(abs_arg1, abs_arg2) THEN i64(arg1) ELSE i64(arg2)

helper_msa_min_a_df ==
    Helper("min_a_df", LAMBDA e, c :
        WrpUpdate(ForLanes(e, c.df, LAMBDA s, i :
            Lane_ws_wt(s, c, i, msa_load_wr_elem_s64, msa_load_wr_elem_s64,
                       msa_min_a_df)), c.wd))

msa_min_s_df(df, arg1, arg2) ==
    IF ZLt(i64(arg1), i64(arg2)) THEN i64(arg1) ELSE i64(arg2)

helper_msa_min_s_df ==
    Helper("min_s_df", LAMBDA e, c :
        WrpUpdate(ForLanes(e, c.df, LAMBDA s, i :
            Lane_ws_wt(s, c, i, msa_load_wr_elem_s64, msa_load_wr_elem_s64,
                       msa_min_s_df)), c.wd))

helper_msa_mini_s_df ==
    Helper("mini_s_df", LAMBDA e, c :
        WrpUpdate(ForLanes(e, c.df, LAMBDA s, i :
            Lane_ws_imm(s, c, i, msa_load_wr_elem_s64,
                        msa_min_s_df, c64(c.s5))), c.wd))

msa_min_u_df(df, arg1, arg2) ==
    LET u_arg1 == UNSIGNED(i64(arg1), df)
        u_arg2 == UNSIGNED(i64(arg2), df)
    IN  IF ZLt(u_arg1, u_arg2) THEN i64(arg1) ELSE i64(arg2)

helper_msa_min_u_df ==
    Helper("min_u_df", LAMBDA e, c :
        WrpUpdate(ForLanes(e, c.df, LAMBDA s, i :
            Lane_ws_wt(s, c, i, msa_load_wr_elem_i64, msa_load_wr_elem_i64,
                       msa_min_u_df)), c.wd))

helper_msa_mini_u_df ==
    Helper("mini_u_df", LAMBDA e, c :
        WrpUpdate(ForLanes(e, c.df, LAMBDA s, i :
            Lane_ws_imm(s, c, i, msa_load_wr_elem_i64,
                        msa_min_u_df, c64(c.u5))), c.wd))

(***************************************************************************)
(* Splat and load immediate.                                               *)
(***************************************************************************)
\* msa_splat_df with the index taken from rt without the reduction modulo
\* the element count
msa_splat_df_raw(e, df, pwd, pws, rt) ==
    LET n == IF ZLt(u64(rt), c64(256)) THEN ZToInt(u64(rt)) ELSE 256
        x == msa_check_index(df, n)
    IN  IF x # "none" THEN Raise(e, x)
        ELSE AllElements(e, DF_ELEMENTS(df, MSA_WRLEN), LAMBDA s, i :
                 StoreLane(s, pwd, LaneBytes(df), i,
                           Lane(s.fpr[pws], LaneBytes(df), n)))

\* msa_splat_df counting the lane index from the other end of ws
msa_splat_df_mirror(e, df, pwd, pws, rt) ==
    IF DF_ELEMENTS(df, MSA_WRLEN) = 0 THEN Raise(e, "abort")
    ELSE LET n == ZModSmall(u64(rt), DF_ELEMENTS(df, MSA_WRLEN))
             x == msa_check_index(df, n)
         IN  IF x # "none" THEN Raise(e, x)
             ELSE AllElements(e, DF_ELEMENTS(df, MSA_WRLEN), LAMBDA s, i :
                      StoreLane(s, pwd, LaneBytes(df), i,
                                Lane(s.fpr[pws], LaneBytes(df),
                                     DF_ELEMENTS(df, MSA_WRLEN) - 1 - n)))

\* the element count is 0 for df > 4: rt % 0 traps, and an index that got
\* past it would reach the default branch of msa_check_index
msa_splat_df(e, df, pwd, pws, rt) ==
    IF DF_ELEMENTS(df, MSA_WRLEN) = 0 THEN Raise(e, "abort")
    ELSE LET n == ZModSmall(u64(rt), DF_ELEMENTS(df, MSA_WRLEN))
             x == msa_check_index(df, n)
         IN  IF x # "none" THEN Raise(e, x)
             ELSE CASE df = DF_BYTE ->
                         ALL_B_ELEMENTS(e, MSA_WRLEN, LAMBDA s, i :
                             StoreLane(s, pwd, 1, i, B(s.fpr[pws], n)))
                    [] df = DF_HALF ->
                         ALL_H_ELEMENTS(e, MSA_WRLEN, LAMBDA s, i :
                             StoreLane(s, pwd, 2, i, H(s.fpr[pws], n)))
                    [] df = DF_WORD ->
                         ALL_W_ELEMENTS(e, MSA_WRLEN, LAMBDA s, i :
                             StoreLane(s, pwd, 4, i, W(s.fpr[pws], n)))
                    [] df = DF_DOUBLE ->
                         ALL_D_ELEMENTS(e, MSA_WRLEN, LAMBDA s, i :
                             StoreLane(s, pwd, 8, i, D(s.fpr[pws], n)))
                    [] OTHER -> Raise(e, "abort")

helper_msa_splat_df ==
    Helper("splat_df", LAMBDA e, c :
        WrpUpdate(msa_splat_df(e, c.df, c.wd, c.ws, gpr[c.rt]), c.wd))

helper_msa_ldi_df ==
    Helper("ldi_df", LAMBDA e, c :
        LET s64 == Shr64(i64(Shl64(i64(c64(c.s10)), 54)), 54)
        IN  WrpUpdate(
              CASE c.df = DF_BYTE ->
                     ALL_B_ELEMENTS(e, MSA_WRLEN, LAMBDA s, i :
                         StoreLane(s, c.wd, 1, i, c64(c.s10)))
                [] c.df = DF_HALF ->
                     ALL_H_ELEMENTS(e, MSA_WRLEN, LAMBDA s, i :
                         StoreLane(s, c.wd, 2, i, s64))
                [] c.df = DF_WORD ->
                     ALL_W_ELEMENTS(e, MSA_WRLEN, LAMBDA s, i :
                         StoreLane(s, c.wd, 4, i, s64))
                [] c.df = DF_DOUBLE ->
                     ALL_D_ELEMENTS(e, MSA_WRLEN, LAMBDA s, i :
                         StoreLane(s, c.wd, 8, i, s64))
                [] OTHER -> Raise(e, "abort"), c.wd))

(***************************************************************************)
(* Multiplication, division and remainder.                                 *)
(***************************************************************************)
helper_msa_mulv_df ==
    Helper("mulv_df", LAMBDA e, c :
        WrpUpdate(ForLanes(e, c.df, LAMBDA s, i :
            Lane_ws_wt(s, c, i, msa_load_wr_elem_s64, msa_load_wr_elem_s64,
                       LAMBDA df, ts, tt : Mul64(i64(ts), i64(tt)))), c.wd))

\* msa_div_s_df with the quotient rounded toward minus infinity
msa_div_s_df_floor(df, arg1, arg2) ==
    IF i64(arg1) = DF_MIN_INT(df) /\ i64(arg2) = c64(-1) THEN DF_MIN_INT(df)
    ELSE IF ~ZIsZero(i64(arg2))
         THEN IF /\ ~ZIsZero(SRem64(i64(arg1), i64(arg2)))
                 /\ ZIsNeg(i64(arg1)) # ZIsNeg(i64(arg2))
              THEN i64(ZSub(SDiv64(i64(arg1), i64(arg2)), c64(1)))
              ELSE SDiv64(i64(arg1), i64(arg2))
    ELSE c64(0)

msa_div_s_df(df, arg1, arg2) ==
    IF i64(arg1) = DF_MIN_INT(df) /\ i64(arg2) = c64(-1) THEN DF_MIN_INT(df)
    ELSE IF ~ZIsZero(i64(arg2)) THEN SDiv64(i64(arg1), i64(arg2))
    ELSE c64(0)

helper_msa_div_s_df ==
    Helper("div_s_df", LAMBDA e, c :
        WrpUpdate(ForLanes(e, c.df, LAMBDA s, i :
            Lane_ws_wt(s, c, i, msa_load_wr_elem_s64, msa_load_wr_elem_s64,
                       msa_div_s_df)), c.wd))

msa_div_u_df(df, arg1, arg2) ==
    LET u_arg1 == UNSIGNED(i64(arg1), df)
        u_arg2 == UNSIGNED(i64(arg2), df)
    IN  i64(IF ~ZIsZero(u_arg2) THEN UDiv64(u_arg1, u_arg2) ELSE c64(0))

helper_msa_div_u_df ==
    Helper("div_u_df", LAMBDA e, c :
        WrpUpdate(ForLanes(e, c.df, LAMBDA s, i :
            Lane_ws_wt(s, c, i, msa_load_wr_elem_i64, msa_load_wr_elem_i64,
                       msa_div_u_df)), c.wd))

msa_mod_s_df(df, arg1, arg2) ==
    IF i64(arg1) = DF_MIN_INT(df) /\ i64(arg2) = c64(-1) THEN c64(0)
    ELSE IF ~ZIsZero(i64(arg2)) THEN SRem64(i64(arg1), i64(arg2))
    ELSE c64(0)

helper_msa_mod_s_df ==
    Helper("mod_s_df", LAMBDA e, c :
        WrpUpdate(ForLanes(e, c.df, LAMBDA s, i :
            Lane_ws_wt(s, c, i, msa_load_wr_elem_s64, msa_load_wr_elem_s64,
                       msa_mod_s_df)), c.wd))

msa_mod_u_df(df, arg1, arg2) ==
    LET u_arg1 == UNSIGNED(i64(arg1), df)
        u_arg2 == UNSIGNED(i64(arg2), df)
    IN  i64(IF ~ZIsZero(u_arg2) THEN URem64(u_arg1, u_arg2) ELSE c64(0))

helper_msa_mod_u_df ==
    Helper("mod_u_df", LAMBDA e, c :
        WrpUpdate(ForLanes(e, c.df, LAMBDA s, i :
            Lane_ws_wt(s, c, i, msa_load_wr_elem_i64, msa_load_wr_elem_i64,
                       msa_mod_u_df)), c.wd))

(***************************************************************************)
(* Saturation and shifts.  A parameter m is the uint32_t shift amount or   *)
(* bit count, below the lane width.                                        *)
(***************************************************************************)
msa_sat_u_df(df, arg, m) ==
    LET u_arg == UNSIGNED(i64(arg), df)
    IN  i64(IF ZLt(u_arg, M_MAX_UINT(ZToInt(m) + 1)) THEN u_arg
            ELSE M_MAX_UINT(ZToInt(m) + 1))

helper_msa_sat_u_df ==
    Helper("sat_u_df", LAMBDA e, c :
        WrpUpdate(ForLanes(e, c.df, LAMBDA s, i :
            Lane_ws_imm(s, c, i, msa_load_wr_elem_i64,
                        msa_sat_u_df, c64(c.m))), c.wd))

msa_sat_s_df(df, arg, m) ==
    IF ZLt(i64(arg), M_MIN_INT(ZToInt(m) + 1)) THEN M_MIN_INT(ZToInt(m) + 1)
    ELSE IF ZGt(i64(arg), M_MAX_INT(ZToInt(m) + 1))
         THEN M_MAX_INT(ZToInt(m) + 1)
         ELSE i64(arg)

helper_msa_sat_s_df ==
    Helper("sat_s_df", LAMBDA e, c :
        WrpUpdate(ForLanes(e, c.df, LAMBDA s, i :
            Lane_ws_imm(s, c, i, msa_load_wr_elem_s64,
                        msa_sat_s_df, c64(c.m))), c.wd))

msa_sll_df(df, arg1, arg2) ==
    LET b_arg2 == BIT_POSITION(i64(arg2), df)
    IN  i64(Shl64(i64(arg1), b_arg2))

helper_msa_sll_df ==
    Helper("sll_df", LAMBDA e, c :
        WrpUpdate(ForLanes(e, c.df, LAMBDA s, i :
            Lane_ws_wt(s, c, i, msa_load_wr_elem_s64, msa_load_wr_elem_s64,
                       msa_sll_df)), c.wd))

helper_msa_slli_df ==
    Helper("slli_df", LAMBDA e, c :
        WrpUpdate(ForLanes(e, c.df, LAMBDA s, i :
            Lane_ws_imm(s, c, i, msa_load_wr_elem_s64,
                        LAMBDA df, ts, m : i64(Shl64(i64(ts), ZToInt(m))), c64(c.m))), c.wd))

msa_sra_df(df, arg1, arg2) ==
    LET b_arg2 == BIT_POSITION(i64(arg2), df)
    IN  Shr64(i64(arg1), b_arg2)

helper_msa_sra_df ==
    Helper("sra_df", LAMBDA e, c :
        WrpUpdate(ForLanes(e, c.df, LAMBDA s, i :
            Lane_ws_wt(s, c, i, msa_load_wr_elem_s64, msa_load_wr_elem_s64,
                       msa_sra_df)), c.wd))

helper_msa_srai_df ==
    Helper("srai_df", LAMBDA e, c :
        WrpUpdate(ForLanes(e, c.df, LAMBDA s, i :
            Lane_ws_imm(s, c, i, msa_load_wr_elem_s64,
                        LAMBDA df, ts, m : Shr64(i64(ts), ZToInt(m)), c64(c.m))), c.wd))

msa_srl_df(df, arg1, arg2) ==
    LET u_arg1 == UNSIGNED(i64(arg1), df)
        b_arg2 == BIT_POSITION(i64(arg2), df)
    IN  i64(Shr64(u_arg1, b_arg2))

helper_msa_srl_df ==
    Helper("srl_df", LAMBDA e, c :
        WrpUpdate(ForLanes(e, c.df, LAMBDA s, i :
            Lane_ws_wt(s, c, i, msa_load_wr_elem_s64, msa_load_wr_elem_s64,
                       msa_srl_df)), c.wd))

msa_srli_df(df, arg, m) ==
    LET u_arg == UNSIGNED(i64(arg), df)
    IN  i64(Shr64(u_arg, ZToInt(m)))

helper_msa_srli_df ==
    Helper("srli_df", LAMBDA e, c :
        WrpUpdate(ForLanes(e, c.df, LAMBDA s, i :
            Lane_ws_imm(s, c, i, msa_load_wr_elem_s64,
                        msa_srli_df, c64(c.m))), c.wd))

\* msa_srar_df without the rounding bit
msa_srar_df_trunc(df, arg1, arg2) ==
    LET b_arg2 == BIT_POSITION(i64(arg2), df)
    IN  i64(Shr64(i64(arg1), b_arg2))

msa_srar_df(df, arg1, arg2) ==
    LET b_arg2 == BIT_POSITION(i64(arg2), df)
    IN  IF b_arg2 = 0 THEN i64(arg1)
        ELSE LET r_bit == ZAnd(Shr64(i64(arg1), b_arg2 - 1), c64(1))
             IN  i64(ZAdd(Shr64(i64(arg1), b_arg2), r_bit))

helper_msa_srar_df ==
    Helper("srar_df", LAMBDA e, c :
        WrpUpdate(ForLanes(e, c.df, LAMBDA s, i :
            Lane_ws_wt(s, c, i, msa_load_wr_elem_s64, msa_load_wr_elem_s64,
                       msa_srar_df)), c.wd))

msa_srari_df(df, arg, m) ==
    IF ZToInt(m) = 0 THEN i64(arg)
    ELSE LET r_bit == ZAnd(Shr64(i64(arg), ZToInt(m) - 1), c64(1))
         IN  i64(ZAdd(Shr64(i64(arg), ZToInt(m)), r_bit))

helper_msa_srari_df ==
    Helper("srari_df", LAMBDA e, c :
        WrpUpdate(ForLanes(e, c.df, LAMBDA s, i :
            Lane_ws_imm(s, c, i, msa_load_wr_elem_s64,
                        msa_srari_df, c64(c.m))), c.wd))

msa_srlr_df(df, arg1, arg2) ==
    LET u_arg1 == UNSIGNED(i64(arg1), df)
        b_arg2 == BIT_POSITION(i64(arg2), df)
    IN  IF b_arg2 = 0 THEN i64(u_arg1)
        ELSE LET r_bit == ZAnd(Shr64(u_arg1, b_arg2 - 1), c64(1))
             IN  i64(u64(ZAdd(Shr64(u_arg1, b_arg2), r_bit)))

helper_msa_srlr_df ==
    Helper("srlr_df", LAMBDA e, c :
        WrpUpdate(ForLanes(e, c.df, LAMBDA s, i :
            Lane_ws_wt(s, c, i, msa_load_wr_elem_s64, msa_load_wr_elem_s64,
                       msa_srlr_df)), c.wd))

\* msa_srlri_df on the sign-extended lane as it was loaded, without
\* UNSIGNED
msa_srlri_df_signed(df, arg, m) ==
    LET u_arg == i64(arg)
    IN  IF ZToInt(m) = 0 THEN i64(u_arg)
        ELSE LET r_bit == ZAnd(Shr64(u_arg, ZToInt(m) - 1), c64(1))
             IN  i64(u64(ZAdd(Shr64(u_arg, ZToInt(m)), r_bit)))

msa_srlri_df(df, arg, m) ==
    LET u_arg == UNSIGNED(i64(arg), df)
    IN  IF ZToInt(m) = 0 THEN i64(u_arg)
        ELSE LET r_bit == ZAnd(Shr64(u_arg, ZToInt(m) - 1), c64(1))
             IN  i64(u64(ZAdd(Shr64(u_arg, ZToInt(m)), r_bit)))

helper_msa_srlri_df ==
    Helper("srlri_df", LAMBDA e, c :
        WrpUpdate(ForLanes(e, c.df, LAMBDA s, i :
            Lane_ws_imm(s, c, i, msa_load_wr_elem_s64,
                        msa_srlri_df, c64(c.m))), c.wd))

(***************************************************************************)
(* Slide.                                                                  *)
(***************************************************************************)
\* for (i = 0; i < n; i++) Body
ForUp(e0, n, Body(_, _)) ==
    LET st[i \in 0..n] ==
            IF i = 0 THEN e0
            ELSE LET p == st[i - 1]
                 IN  IF p.exception # "none" THEN p ELSE Body(p, i - 1)
    IN  st[n]

\* uint8_t v[64] after the first loop of CONCATENATE_AND_SLIDE(s, k):
\* v[0..s-1] are the bytes of slice k of ws, v[s..2s-1] those of wd, and
\* the elements from 2s on have never been assigned (-1)
SlideBuffer(e, pwd, pws, s, k) ==
    [i \in 0..63 |->
        IF i < s THEN e.fpr[pws][s * k + i]
        ELSE IF i < 2 * s THEN e.fpr[pwd][s * k + i - s]
        ELSE -1]

\* the first loop of CONCATENATE_AND_SLIDE in the log: v[i] and v[i + s]
\* are assigned for i = 0..s-1
SlideFill(e, s) ==
    ForUp(e, s, LAMBDA x, i :
        [x EXCEPT !.log = @ \o <<Assigned("v", 0, i, 1),
                                 Assigned("v", 0, i + s, 1)>>])

\* CONCATENATE_AND_SLIDE with the two halves of v exchanged
CONCATENATE_AND_SLIDE_swapped(e, pwd, pws, n, s, k) ==
    LET v == SlideBuffer(e, pws, pwd, s, k)
    IN  ForUp(SlideFill(e, s), s, LAMBDA x, i :
            StoreLane(x, pwd, 1, s * k + i, <<v[i + n]>>))

\* the first loop fills v, then byte i of the slice of wd is v[i + n]
CONCATENATE_AND_SLIDE(e, pwd, pws, n, s, k) ==
    LET v == SlideBuffer(e, pwd, pws, s, k)
    IN  ForUp(SlideFill(e, s), s, LAMBDA x, i :
            StoreLane(x, pwd, 1, s * k + i, <<v[i + n]>>))

\* msa_sld_df sliding the whole register as one slice in every format
msa_sld_df_whole(e, df, pwd, pws, rt) ==
    IF DF_ELEMENTS(df, MSA_WRLEN) = 0 THEN Raise(e, "abort")
    ELSE LET n == ZModSmall(u64(rt), DF_ELEMENTS(df, MSA_WRLEN))
             x == msa_check_index(df, n)
         IN  IF x # "none" THEN Raise(e, x)
             ELSE CONCATENATE_AND_SLIDE(e, pwd, pws, n, MSA_WRLEN \div 8, 0)

msa_sld_df(e, df, pwd, pws, rt) ==
    IF DF_ELEMENTS(df, MSA_WRLEN) = 0 THEN Raise(e, "abort")
    ELSE LET n == ZModSmall(u64(rt), DF_ELEMENTS(df, MSA_WRLEN))
             x == msa_check_index(df, n)
         IN  IF x # "none" THEN Raise(e, x)
             ELSE CASE df = DF_BYTE ->
                         CONCATENATE_AND_SLIDE(e, pwd, pws, n, MSA_WRLEN \div 8, 0)
                    [] df = DF_HALF ->
                         ForUp(e, 2, LAMBDA s, k :
                             CONCATENATE_AND_SLIDE(s, pwd, pws, n,
                                                   MSA_WRLEN \div 16, k))
                    [] df = DF_WORD ->
                         ForUp(e, 4, LAMBDA s, k :
                             CONCATENATE_AND_SLIDE(s, pwd, pws, n,
                                                   MSA_WRLEN \div 32, k))
                    [] df = DF_DOUBLE ->
                         ForUp(e, 8, LAMBDA s, k :
                             CONCATENATE_AND_SLIDE(s, pwd, pws, n,
                                                   MSA_WRLEN \div 64, k))
                    [] OTHER -> Raise(e, "abort")

helper_msa_sld_df ==
    Helper("sld_df", LAMBDA e, c :
        WrpUpdate(msa_sld_df(e, c.df, c.wd, c.ws, gpr[c.rt]), c.wd))

(***************************************************************************)
(* The machine: the translated code decodes an instruction and calls the   *)
(* helper of its opcode.  A behaviour executes the instructions of prog in *)
(* order from an initial CPU state.                                        *)
(***************************************************************************)
\* the opcodes, one per helper
Ops ==
    {"add_a_df", "addv_df", "addvi_df", "subv_df", "subvi_df", "adds_a_df",
     "adds_s_df", "adds_u_df", "subs_s_df", "subs_u_df", "subsuu_s_df",
     "subsus_u_df", "andi_b", "ori_b", "nori_b", "xori_b", "asub_s_df",
     "asub_u_df", "ave_s_df", "ave_u_df", "aver_s_df", "aver_u_df",
     "bclr_df", "bclri_df", "bneg_df", "bnegi_df", "bset_df", "bseti_df",
     "binsl_df", "binsli_df", "binsr_df", "binsri_df", "bmnzi_b", "bmzi_b",
     "bseli_b", "ceq_df", "ceqi_df", "cle_s_df", "clei_s_df", "cle_u_df",
     "clei_u_df", "clt_s_df", "clti_s_df", "clt_u_df", "clti_u_df",
     "hadd_s_df", "hadd_u_df", "hsub_s_df", "hsub_u_df", "dotp_s_df",
     "dotp_u_df", "dpadd_s_df", "dpadd_u_df", "dpsub_s_df", "dpsub_u_df",
     "ilvev_df", "ilvod_df", "ilvl_df", "ilvr_df", "pckev_df", "pckod_df",
     "vshf_df", "shf_df", "maddv_df", "msubv_df", "max_a_df", "max_s_df",
     "maxi_s_df", "max_u_df", "maxi_u_df", "min_a_df", "min_s_df",
     "mini_s_df", "min_u_df", "mini_u_df", "splat_df", "ldi_df", "mulv_df",
     "div_s_df", "div_u_df", "mod_s_df", "mod_u_df", "sat_u_df",
     "sat_s_df", "sll_df", "slli_df", "sra_df", "srai_df", "srl_df",
     "srli_df", "srar_df", "srari_df", "srlr_df", "srlri_df", "sld_df"}

\* number of register-bank contents (and of data formats per destination)
\* the initial states range over
NumPat == 1

\* byte values the initial register bank is filled with
SampleBytes ==
    <<0, 255, 1, 128, 127, 254, 2, 85, 170, 64, 192, 3, 252, 16, 240, 129>>

\* register-bank content number p
Bank(p) ==
    [r \in 0..31 |-> [j \in 0..15 |->
        SampleBytes[((r * 5 + j * 3 + p * 7 + (r \div 4) * j) % 16) + 1]]]

\* values of the general-purpose registers
SampleGpr ==
    <<c64(0), c64(1), c64(2), c64(7), c64(15), c64(16), c64(21), c64(255),
      <<255, 255, 255, 255, 0, 0, 0, 0, 0>>,
      <<253, 255, 255, 255, 255, 255, 255, 255, 0>>,
      <<6, 0, 0, 0, 0, 0, 0, 128, 0>>>>

Gprs(p) == [r \in 0..31 |-> SampleGpr[((r + p) % Len(SampleGpr)) + 1]]

\* the instruction of opcode op, format df and destination wd; the other
\* registers and the immediate fields are spread over their ranges by k
Insn(op, df, wd, k) ==
    [op |-> op, df |-> df, wd |-> wd,
     ws |-> (wd + k) % 32, wt |-> (wd + 2 * k + 1) % 32,
     u5 |-> (wd * 7 + k) % 32, s5 |-> ((wd * 11 + k) % 32) - 16,
     i5 |-> ((wd * 13 + k) % 32) - 16,
     m |-> (wd * 5 + k) % DF_BITS(df),
     i8 |-> (wd * 67 + k * 29 + 5) % 256,
     s10 |-> (wd * 131 + k * 257 + 3) % 1024,
     imm |-> (wd * 83 + k * 41 + 27) % 256,
     rt |-> (wd + 3 * k) % 32]

\* values of msamodify: sets of bit positions
SampleMask(wd) == {{}, {wd}, {(wd + 1) % 32, 31}, 0..31}

\* one instruction of any opcode on any destination register, in the data
\* formats (wd + p) % 4, with the WRP bit of MSAIR set or clear
Init ==
    \E op \in Ops, wrp \in {0, 1}, wd \in 0..31, p \in 0..(NumPat - 1) :
        /\ fpr = Bank(p + wd)
        /\ gpr = Gprs(p)
        /\ msair = wrp * MSAIR_WRP_BIT + (wd % 2) * 65793
        /\ msamodify \in IF wd % 9 = 0 THEN SampleMask(wd)
                         ELSE {{(wd * 3) % 32}}
        /\ exception = "none"
        /\ prog = <<Insn(op, (wd + p) % 4, wd, (wd \div 4) + p)>>
        /\ pc = 1
        /\ pre = [fpr |-> fpr, msamodify |-> msamodify]
        /\ written = {}
        /\ log = <<>>

Next ==
    \/ helper_msa_add_a_df
    \/ helper_msa_addv_df
    \/ helper_msa_addvi_df
    \/ helper_msa_subv_df
    \/ helper_msa_subvi_df
    \/ helper_msa_adds_a_df
    \/ helper_msa_adds_s_df
    \/ helper_msa_adds_u_df
    \/ helper_msa_subs_s_df
    \/ helper_msa_subs_u_df
    \/ helper_msa_subsuu_s_df
    \/ helper_msa_subsus_u_df
    \/ helper_msa_andi_b
    \/ helper_msa_ori_b
    \/ helper_msa_nori_b
    \/ helper_msa_xori_b
    \/ helper_msa_asub_s_df
    \/ helper_msa_asub_u_df
    \/ helper_msa_ave_s_df
    \/ helper_msa_ave_u_df
    \/ helper_msa_aver_s_df
    \/ helper_msa_aver_u_df
    \/ helper_msa_bclr_df
    \/ helper_msa_bclri_df
    \/ helper_msa_bneg_df
    \/ helper_msa_bnegi_df
    \/ helper_msa_bset_df
    \/ helper_msa_bseti_df
    \/ helper_msa_binsl_df
    \/ helper_msa_binsli_df
    \/ helper_msa_binsr_df
    \/ helper_msa_binsri_df
    \/ helper_msa_bmnzi_b
    \/ helper_msa_bmzi_b
    \/ helper_msa_bseli_b
    \/ helper_msa_ceq_df
    \/ helper_msa_ceqi_df
    \/ helper_msa_cle_s_df
    \/ helper_msa_clei_s_df
    \/ helper_msa_cle_u_df
    \/ helper_msa_clei_u_df
    \/ helper_msa_clt_s_df
    \/ helper_msa_clti_s_df
    \/ helper_msa_clt_u_df
    \/ helper_msa_clti_u_df
    \/ helper_msa_hadd_s_df
    \/ helper_msa_hadd_u_df
    \/ helper_msa_hsub_s_df
    \/ helper_msa_hsub_u_df
    \/ helper_msa_dotp_s_df
    \/ helper_msa_dotp_u_df
    \/ helper_msa_dpadd_s_df
    \/ helper_msa_dpadd_u_df
    \/ helper_msa_dpsub_s_df
    \/ helper_msa_dpsub_u_df
    \/ helper_msa_ilvev_df
    \/ helper_msa_ilvod_df
    \/ helper_msa_ilvl_df
    \/ helper_msa_ilvr_df
    \/ helper_msa_pckev_df
    \/ helper_msa_pckod_df
    \/ helper_msa_vshf_df
    \/ helper_msa_shf_df
    \/ helper_msa_maddv_df
    \/ helper_msa_msubv_df
    \/ helper_msa_max_a_df
    \/ helper_msa_max_s_df
    \/ helper_msa_maxi_s_df
    \/ helper_msa_max_u_df
    \/ helper_msa_maxi_u_df
    \/ helper_msa_min_a_df
    \/ helper_msa_min_s_df
    \/ helper_msa_mini_s_df
    \/ helper_msa_min_u_df
    \/ helper_msa_mini_u_df
    \/ helper_msa_splat_df
    \/ helper_msa_ldi_df
    \/ helper_msa_mulv_df
    \/ helper_msa_div_s_df
    \/ helper_msa_div_u_df
    \/ helper_msa_mod_s_df
    \/ helper_msa_mod_u_df
    \/ helper_msa_sat_u_df
    \/ helper_msa_sat_s_df
    \/ helper_msa_sll_df
    \/ helper_msa_slli_df
    \/ helper_msa_sra_df
    \/ helper_msa_srai_df
    \/ helper_msa_srl_df
    \/ helper_msa_srli_df
    \/ helper_msa_srar_df
    \/ helper_msa_srari_df
    \/ helper_msa_srlr_df
    \/ helper_msa_srlri_df
    \/ helper_msa_sld_df

Spec == Init /\ [][Next]_vars

(***************************************************************************)
(* Aliased against distinct registers: the same instruction executed twice,*)
(* first with its destination aliased to its sources, then on registers    *)
(* distinct from each other and from the first ones, loaded with the       *)
(* contents the first ones had.                                            *)
(***************************************************************************)
\* the helpers that move lanes between positions
ShapeOps ==
    {"ilvev_df", "ilvod_df", "ilvl_df", "ilvr_df", "pckev_df", "pckod_df",
     "vshf_df", "shf_df", "splat_df", "sld_df"}

\* a = 0: wd = ws = wt; a = 1: wd = ws only; a = 2: wd = wt only
InitAlias ==
    \E op \in Ops, wrp \in {0, 1}, a \in 0..2, df \in DF_BYTE..DF_DOUBLE,
       p \in 0..(NumPat - 1) :
        LET r    == (8 * df + 3 * a + 5 * p + 1) % 32
            r2   == (r + 11) % 32
            base == Insn(op, df, r, df + a + p)
            ia   == [base EXCEPT !.ws = IF a = 2 THEN r2 ELSE r,
                                 !.wt = IF a = 1 THEN r2 ELSE r]
            ib   == [base EXCEPT !.wd = (r + 1) % 32, !.ws = (r + 2) % 32,
                                 !.wt = (r + 3) % 32]
            b    == Bank(p + r)
        IN  /\ fpr = [b EXCEPT ![ib.wd] = b[ia.wd], ![ib.ws] = b[ia.ws],
                               ![ib.wt] = b[ia.wt]]
            /\ gpr = Gprs(p)
            /\ msair = wrp * MSAIR_WRP_BIT + (df % 2) * 65793
            /\ msamodify \in IF a = 0 THEN {{}, (0..31) \ {ib.wd}}
                             ELSE {{(r * 3) % 32}}
            /\ exception = "none"
            /\ prog = <<ia, ib>>
            /\ pc = 1
            /\ pre = [fpr |-> fpr, msamodify |-> msamodify]
            /\ written = {}
            /\ log = <<>>

SpecAlias == InitAlias /\ [][Next]_vars

(***************************************************************************)
(* The saturating and dividing helpers on lanes at and around the limits   *)
(* of their format.                                                        *)
(***************************************************************************)
\* number of lane values the source registers are filled from
NumSamples == 16

\* the limits of a lane of format df as integers, written out in limbs
LaneMax(df) ==
    Tup([i \in 1..9 |-> IF i < LaneBytes(df) THEN 255
                        ELSE IF i = LaneBytes(df) THEN 127 ELSE 0])
LaneMin(df) ==
    Tup([i \in 1..9 |-> IF i < LaneBytes(df) THEN 0
                        ELSE IF i = LaneBytes(df) THEN 128
                        ELSE IF i <= 8 THEN 255 ELSE -1])
LaneUMax(df) == Tup([i \in 1..9 |-> IF i <= LaneBytes(df) THEN 255 ELSE 0])

\* lane value number k of format df, as the signed integer it holds
Sample(df, k) ==
    CASE k = 0  -> c64(0)
      [] k = 1  -> c64(1)
      [] k = 2  -> c64(-1)
      [] k = 3  -> LaneMin(df)
      [] k = 4  -> LaneMax(df)
      [] k = 5  -> ZAdd(LaneMin(df), c64(1))
      [] k = 6  -> ZSub(LaneMax(df), c64(1))
      [] k = 7  -> c64(2)
      [] k = 8  -> c64(-2)
      [] k = 9  -> c64(3)
      [] k = 10 -> c64(-3)
      [] k = 11 -> c64(7)
      [] k = 12 -> c64(-7)
      [] k = 13 -> Tup([i \in 1..9 |-> IF i = LaneBytes(df) THEN 64 ELSE 0])
      [] k = 14 -> ZNeg(Tup([i \in 1..9 |->
                                IF i = LaneBytes(df) THEN 64 ELSE 0]))
      [] k = 15 -> Tup([i \in 1..9 |-> IF i <= LaneBytes(df) THEN 85 ELSE 0])
      [] OTHER  -> ZSub(LaneMax(df), c64(k))

\* the register whose lane i holds sample (first + i) % NumSamples
SampleReg(df, first) ==
    [j \in 0..15 |->
        Sample(df, (first + j \div LaneBytes(df)) % NumSamples)
            [(j % LaneBytes(df)) + 1]]

ArithOps ==
    {"adds_a_df", "adds_s_df", "adds_u_df", "subs_s_df", "subs_u_df",
     "div_s_df", "div_u_df", "mod_s_df", "mod_u_df"}

\* lane i of ws and lane i of wt range together over all pairs of samples
InitArith ==
    \E op \in ArithOps, df \in DF_BYTE..DF_DOUBLE, ib \in 0..(NumSamples - 1) :
    \E ia \in {n \in 0..(NumSamples - 1) : n % DF_ELEMENTS(df, MSA_WRLEN) = 0} :
        LET c == Insn(op, df, 5 + df, 1 + df)
        IN  /\ fpr = [Bank(0) EXCEPT ![c.ws] = SampleReg(df, ia),
                                     ![c.wt] = SampleReg(df, ib)]
            /\ gpr = Gprs(0)
            /\ msair = MSAIR_WRP_BIT
            /\ msamodify = {}
            /\ exception = "none"
            /\ prog = <<c>>
            /\ pc = 1
            /\ pre = [fpr |-> fpr, msamodify |-> msamodify]
            /\ written = {}
            /\ log = <<>>

NextArith ==
    \/ helper_msa_adds_a_df
    \/ helper_msa_adds_s_df
    \/ helper_msa_adds_u_df
    \/ helper_msa_subs_s_df
    \/ helper_msa_subs_u_df
    \/ helper_msa_div_s_df
    \/ helper_msa_div_u_df
    \/ helper_msa_mod_s_df
    \/ helper_msa_mod_u_df

SpecArith == InitArith /\ [][NextArith]_vars

(***************************************************************************)
(* One helper invocation on registers of boundary lane values, for a given *)
(* set of opcodes: lane i of ws and lane i of wt range together over all   *)
(* pairs of samples, and the immediate fields of the instruction over the  *)
(* values Insn derives from the second sample index.                       *)
(***************************************************************************)
InitLanes(ops) ==
    \E op \in ops, df \in DF_BYTE..DF_DOUBLE, ib \in 0..(NumSamples - 1) :
    \E ia \in {n \in 0..(NumSamples - 1) : n % DF_ELEMENTS(df, MSA_WRLEN) = 0} :
        LET c == Insn(op, df, 5 + df, 1 + df + ib)
        IN  /\ fpr = [Bank(0) EXCEPT ![c.ws] = SampleReg(df, ia),
                                     ![c.wt] = SampleReg(df, ib)]
            /\ gpr = Gprs(0)
            /\ msair = MSAIR_WRP_BIT
            /\ msamodify = {}
            /\ exception = "none"
            /\ prog = <<c>>
            /\ pc = 1
            /\ pre = [fpr |-> fpr, msamodify |-> msamodify]
            /\ written = {}
            /\ log = <<>>

\* the mixed-sign saturating subtractions and the averages
SatAvgOps ==
    {"subsuu_s_df", "subsus_u_df", "ave_s_df", "ave_u_df", "aver_s_df",
     "aver_u_df"}

InitSatAvg == InitLanes(SatAvgOps)

NextSatAvg ==
    \/ helper_msa_subsuu_s_df
    \/ helper_msa_subsus_u_df
    \/ helper_msa_ave_s_df
    \/ helper_msa_ave_u_df
    \/ helper_msa_aver_s_df
    \/ helper_msa_aver_u_df

SpecSatAvg == InitSatAvg /\ [][NextSatAvg]_vars

\* the maxima and minima, with a register or an immediate second operand
MinMaxOps ==
    {"max_a_df", "max_s_df", "maxi_s_df", "max_u_df", "maxi_u_df",
     "min_a_df", "min_s_df", "mini_s_df", "min_u_df", "mini_u_df"}

InitMinMax == InitLanes(MinMaxOps)

NextMinMax ==
    \/ helper_msa_max_a_df
    \/ helper_msa_max_s_df
    \/ helper_msa_maxi_s_df
    \/ helper_msa_max_u_df
    \/ helper_msa_maxi_u_df
    \/ helper_msa_min_a_df
    \/ helper_msa_min_s_df
    \/ helper_msa_mini_s_df
    \/ helper_msa_min_u_df
    \/ helper_msa_mini_u_df

SpecMinMax == InitMinMax /\ [][NextMinMax]_vars

(***************************************************************************)
(* Two single-bit helpers in a row: the second works on the destination of *)
(* the first, with the same bit-index register wt, and stores to a         *)
(* register of its own.                                                    *)
(***************************************************************************)
\* a register that is not in S
Fresh(S) == CHOOSE r \in 0..31 : r \notin S

BitPairs ==
    {<<"bset_df", "bclr_df">>, <<"bneg_df", "bneg_df">>,
     <<"bclr_df", "bset_df">>}

InitBitPair ==
    \E ops \in BitPairs, df \in DF_BYTE..DF_DOUBLE, ib \in 0..(NumSamples - 1) :
    \E ia \in {n \in 0..(NumSamples - 1) : n % DF_ELEMENTS(df, MSA_WRLEN) = 0} :
        LET c1 == Insn(ops[1], df, 5 + df, 1 + df + ib)
            c2 == [c1 EXCEPT !.op = ops[2],
                             !.wd = Fresh({c1.wd, c1.ws, c1.wt}),
                             !.ws = c1.wd]
        IN  /\ fpr = [Bank(0) EXCEPT ![c1.ws] = SampleReg(df, ia),
                                     ![c1.wt] = SampleReg(df, ib)]
            /\ gpr = Gprs(0)
            /\ msair = MSAIR_WRP_BIT
            /\ msamodify = {}
            /\ exception = "none"
            /\ prog = <<c1, c2>>
            /\ pc = 1
            /\ pre = [fpr |-> fpr, msamodify |-> msamodify]
            /\ written = {}
            /\ log = <<>>

NextBitPair ==
    \/ helper_msa_bclr_df
    \/ helper_msa_bneg_df
    \/ helper_msa_bset_df

SpecBitPair == InitBitPair /\ [][NextBitPair]_vars

(***************************************************************************)
(* One helper invocation on registers of boundary lane values, for         *)
(* helpers that also read their destination: lane i of wd, of ws and of wt *)
(* range together over triples of samples.                                 *)
(***************************************************************************)
\* the first samples of the destination register
DestFirst == {0, 5, 11}

InitLanes3(ops, dests) ==
    \E op \in ops, df \in DF_BYTE..DF_DOUBLE, ib \in 0..(NumSamples - 1) :
    \E ia \in {n \in 0..(NumSamples - 1) : n % DF_ELEMENTS(df, MSA_WRLEN) = 0},
       id \in dests :
        LET c == Insn(op, df, 5 + df, 1 + df + ib)
        IN  /\ fpr = [Bank(0) EXCEPT ![c.wd] = SampleReg(df, id),
                                     ![c.ws] = SampleReg(df, ia),
                                     ![c.wt] = SampleReg(df, ib)]
            /\ gpr = Gprs(0)
            /\ msair = MSAIR_WRP_BIT
            /\ msamodify = {}
            /\ exception = "none"
            /\ prog = <<c>>
            /\ pc = 1
            /\ pre = [fpr |-> fpr, msamodify |-> msamodify]
            /\ written = {}
            /\ log = <<>>

\* the bit inserts, with a register or an immediate field width
BitInsertOps == {"binsl_df", "binsli_df", "binsr_df", "binsri_df"}

InitBitInsert == InitLanes3(BitInsertOps, DestFirst)

NextBitInsert ==
    \/ helper_msa_binsl_df
    \/ helper_msa_binsli_df
    \/ helper_msa_binsr_df
    \/ helper_msa_binsri_df

SpecBitInsert == InitBitInsert /\ [][NextBitInsert]_vars

\* the horizontal additions and subtractions and the dot products
DotOps ==
    {"hadd_s_df", "hadd_u_df", "hsub_s_df", "hsub_u_df", "dotp_s_df",
     "dotp_u_df", "dpadd_s_df", "dpadd_u_df", "dpsub_s_df", "dpsub_u_df"}

InitDot == InitLanes3(DotOps, {5, 11})

NextDot ==
    \/ helper_msa_hadd_s_df
    \/ helper_msa_hadd_u_df
    \/ helper_msa_hsub_s_df
    \/ helper_msa_hsub_u_df
    \/ helper_msa_dotp_s_df
    \/ helper_msa_dotp_u_df
    \/ helper_msa_dpadd_s_df
    \/ helper_msa_dpadd_u_df
    \/ helper_msa_dpsub_s_df
    \/ helper_msa_dpsub_u_df

SpecDot == InitDot /\ [][NextDot]_vars

(***************************************************************************)
(* One vshf on a destination register of control values.                   *)
(***************************************************************************)
\* number of destination register contents the initial states range over
NumCtl == 16

\* low bytes of the control values
CtlBytes ==
    <<0, 1, 2, 3, 7, 8, 15, 16, 17, 31, 32, 33, 63, 64, 65, 128, 130, 192,
      193, 255, 4, 30, 62>>

\* destination register content number c: lane i holds a control byte and,
\* in the formats wider than a byte, upper bytes that are 0 or not
Control(df, c) ==
    [j \in 0..15 |->
        LET i == j \div LaneBytes(df)
        IN  IF j % LaneBytes(df) = 0
            THEN CtlBytes[((c * 7 + i * 3) % Len(CtlBytes)) + 1]
            ELSE IF (c + i) % 3 = 0 THEN 0 ELSE (37 * j + c) % 256]

InitVshf ==
    \E df \in DF_BYTE..DF_DOUBLE, c \in 0..(NumCtl - 1), p \in 0..1 :
        LET v == Insn("vshf_df", df, 3 + df, 2 + p)
        IN  /\ fpr = [Bank(p) EXCEPT ![v.wd] = Control(df, c)]
            /\ gpr = Gprs(0)
            /\ msair = MSAIR_WRP_BIT
            /\ msamodify = {}
            /\ exception = "none"
            /\ prog = <<v>>
            /\ pc = 1
            /\ pre = [fpr |-> fpr, msamodify |-> msamodify]
            /\ written = {}
            /\ log = <<>>

NextVshf == helper_msa_vshf_df

SpecVshf == InitVshf /\ [][NextVshf]_vars

(***************************************************************************)
(* One shf at df = byte, half or word, for every 8-bit immediate, with wd  *)
(* and ws different registers or the same one.                             *)
(***************************************************************************)
InitShf ==
    \E df \in DF_BYTE..DF_WORD, imm \in 0..255, a \in 0..1 :
        LET v == [Insn("shf_df", df, 1, 1 - a) EXCEPT !.imm = imm]
        IN  /\ fpr = Bank(0)
            /\ gpr = Gprs(0)
            /\ msair = MSAIR_WRP_BIT
            /\ msamodify = {}
            /\ exception = "none"
            /\ prog = <<v>>
            /\ pc = 1
            /\ pre = [fpr |-> fpr, msamodify |-> msamodify]
            /\ written = {}
            /\ log = <<>>

NextShf == helper_msa_shf_df

SpecShf == InitShf /\ [][NextShf]_vars

(***************************************************************************)
(* One sld for every format and a range of values of gpr[rt], with wd and  *)
(* ws different registers or the same one.                                 *)
(***************************************************************************)
\* largest small value of gpr[rt] the initial states range over
MaxSlide == 19

\* the values of gpr[rt]: the small ones and three large ones
SlideCounts ==
    {c64(g) : g \in 0..MaxSlide}
        \cup {SampleGpr[9], SampleGpr[10], SampleGpr[11]}

InitSld ==
    \E df \in DF_BYTE..DF_DOUBLE, g \in SlideCounts, a \in 0..1, p \in 0..1 :
        LET v == Insn("sld_df", df, 1, 2 - 2 * a)
        IN  /\ fpr = Bank(p)
            /\ gpr = [Gprs(p) EXCEPT ![v.rt] = g]
            /\ msair = MSAIR_WRP_BIT
            /\ msamodify = {}
            /\ exception = "none"
            /\ prog = <<v>>
            /\ pc = 1
            /\ pre = [fpr |-> fpr, msamodify |-> msamodify]
            /\ written = {}
            /\ log = <<>>

NextSld == helper_msa_sld_df

SpecSld == InitSld /\ [][NextSld]_vars

(***************************************************************************)
(* One splat for every format and a range of values of gpr[rt], with wd    *)
(* and ws different registers or the same one.                             *)
(***************************************************************************)
InitSplat ==
    \E df \in DF_BYTE..DF_DOUBLE, g \in SlideCounts, a \in 0..1, p \in 0..1 :
        LET v == Insn("splat_df", df, 1, 2 - 2 * a)
        IN  /\ fpr = Bank(p)
            /\ gpr = [Gprs(p) EXCEPT ![v.rt] = g]
            /\ msair = MSAIR_WRP_BIT
            /\ msamodify = {}
            /\ exception = "none"
            /\ prog = <<v>>
            /\ pc = 1
            /\ pre = [fpr |-> fpr, msamodify |-> msamodify]
            /\ written = {}
            /\ log = <<>>

NextSplat == helper_msa_splat_df

SpecSplat == InitSplat /\ [][NextSplat]_vars

(***************************************************************************)
(* One interleave or pack for every format, with three different registers *)
(* or with wd the same register as ws or as wt.                            *)
(***************************************************************************)
\* number of register banks the initial states of the shape helpers range
\* over
NumBank == 4

InitShape(ops) ==
    \E op \in ops, df \in DF_BYTE..DF_DOUBLE, a \in 0..2,
       p \in 0..(NumBank - 1) :
        LET v == [Insn(op, df, IF a = 0 THEN 1 ELSE a + 1, 1)
                      EXCEPT !.ws = 2, !.wt = 3]
        IN  /\ fpr = Bank(p)
            /\ gpr = Gprs(p)
            /\ msair = MSAIR_WRP_BIT
            /\ msamodify = {}
            /\ exception = "none"
            /\ prog = <<v>>
            /\ pc = 1
            /\ pre = [fpr |-> fpr, msamodify |-> msamodify]
            /\ written = {}
            /\ log = <<>>

InterleaveOps == {"ilvev_df", "ilvod_df", "ilvl_df", "ilvr_df"}

InitInterleave == InitShape(InterleaveOps)

NextInterleave ==
    \/ helper_msa_ilvev_df
    \/ helper_msa_ilvod_df
    \/ helper_msa_ilvl_df
    \/ helper_msa_ilvr_df

SpecInterleave == InitInterleave /\ [][NextInterleave]_vars

PackOps == {"pckev_df", "pckod_df"}

InitPack == InitShape(PackOps)

NextPack ==
    \/ helper_msa_pckev_df
    \/ helper_msa_pckod_df

SpecPack == InitPack /\ [][NextPack]_vars

(***************************************************************************)
(* pckev and pckod of two registers A (ws) and B (wt) into E and O, then   *)
(* ilvr and ilvl of O (ws) and E (wt).                                     *)
(***************************************************************************)
\* the registers of the round trip: the sources A and B, the packs E and
\* O, the interleaves R (ilvr) and L (ilvl)
Reg == [A |-> 2, B |-> 3, E |-> 8, O |-> 9, R |-> 10, L |-> 11]

InitRoundTrip ==
    \E df \in DF_BYTE..DF_DOUBLE, p \in 0..(NumBank - 1), o \in 0..3 :
        LET pe == [Insn("pckev_df", df, Reg.E, 0) EXCEPT !.ws = Reg.A, !.wt = Reg.B]
            po == [Insn("pckod_df", df, Reg.O, 0) EXCEPT !.ws = Reg.A, !.wt = Reg.B]
            ir == [Insn("ilvr_df", df, Reg.R, 0) EXCEPT !.ws = Reg.O, !.wt = Reg.E]
            il == [Insn("ilvl_df", df, Reg.L, 0) EXCEPT !.ws = Reg.O, !.wt = Reg.E]
        IN  /\ fpr = Bank(p)
            /\ gpr = Gprs(p)
            /\ msair = MSAIR_WRP_BIT
            /\ msamodify = {}
            /\ exception = "none"
            /\ prog = (IF o % 2 = 0 THEN <<pe, po>> ELSE <<po, pe>>)
                          \o (IF o \div 2 = 0 THEN <<ir, il>> ELSE <<il, ir>>)
            /\ pc = 1
            /\ pre = [fpr |-> fpr, msamodify |-> msamodify]
            /\ written = {}
            /\ log = <<>>

NextRoundTrip ==
    \/ helper_msa_pckev_df
    \/ helper_msa_pckod_df
    \/ helper_msa_ilvr_df
    \/ helper_msa_ilvl_df

SpecRoundTrip == InitRoundTrip /\ [][NextRoundTrip]_vars

(***************************************************************************)
(* One shape helper for every format, with three different registers or    *)
(* with wd the same register as ws or as wt.                               *)
(***************************************************************************)
InitShapeOrder == InitShape(ShapeOps)

NextShapeOrder ==
    \/ helper_msa_ilvev_df
    \/ helper_msa_ilvod_df
    \/ helper_msa_ilvl_df
    \/ helper_msa_ilvr_df
    \/ helper_msa_pckev_df
    \/ helper_msa_pckod_df
    \/ helper_msa_vshf_df
    \/ helper_msa_shf_df
    \/ helper_msa_sld_df
    \/ helper_msa_splat_df

SpecShapeOrder == InitShapeOrder /\ [][NextShapeOrder]_vars

(***************************************************************************)
(* One call of msa_store_wr_elem by itself, or one helper out of all of    *)
(* them.                                                                   *)
(***************************************************************************)
\* msa_store_wr_elem(env, gpr[rt], wd, df, u5) called on its own
store_wr_elem ==
    Helper("store_wr_elem", LAMBDA e, c :
        msa_store_wr_elem(e, gpr[c.rt], c.wd, c.df, c.u5))

InitStore ==
    \E df \in DF_BYTE..DF_DOUBLE, i \in 0..31, v \in 1..Len(SampleGpr),
       p \in 0..(NumPat - 1) :
        LET c == [Insn("store_wr_elem", df, 1 + 8 * (i % 2), 1) EXCEPT !.u5 = i]
        IN  /\ fpr = Bank(p)
            /\ gpr = [Gprs(p) EXCEPT ![c.rt] = SampleGpr[v]]
            /\ msair = MSAIR_WRP_BIT
            /\ msamodify = {}
            /\ exception = "none"
            /\ prog = <<c>>
            /\ pc = 1
            /\ pre = [fpr |-> fpr, msamodify |-> msamodify]
            /\ written = {}
            /\ log = <<>>

\* one helper, whichever, at each format and three destinations
InitAnyHelper ==
    \E op \in Ops, df \in DF_BYTE..DF_DOUBLE, d \in 0..2 :
        /\ fpr = Bank(d)
        /\ gpr = Gprs(df)
        /\ msair = (d % 2) * MSAIR_WRP_BIT + 65793
        /\ msamodify = {3 * d}
        /\ exception = "none"
        /\ prog = <<Insn(op, df, (15 * d + df) % 32, d + df)>>
        /\ pc = 1
        /\ pre = [fpr |-> fpr, msamodify |-> msamodify]
        /\ written = {}
        /\ log = <<>>

InitFrame == InitAnyHelper \/ InitStore

NextFrame == Next \/ store_wr_elem

SpecFrame == InitFrame /\ [][NextFrame]_vars

(***************************************************************************)
(* One helper invoked with a data format the decoder never produces, or    *)
(* shf invoked with df = double.                                           *)
(***************************************************************************)
\* largest value of df the initial states range over
MaxBadDf == 6

InitBadDf ==
    \E op \in Ops, df \in DF_DOUBLE..MaxBadDf, wrp \in 0..1, d \in 0..1 :
        /\ df = DF_DOUBLE => op = "shf_df"
        /\ fpr = Bank(d)
        /\ gpr = Gprs(df)
        /\ msair = wrp * MSAIR_WRP_BIT + 65793
        /\ msamodify = {3 * d}
        /\ exception = "none"
        /\ prog = <<Insn(op, df, 14 * d + df, d + 1)>>
        /\ pc = 1
        /\ pre = [fpr |-> fpr, msamodify |-> msamodify]
        /\ written = {}
        /\ log = <<>>

SpecBadDf == InitBadDf /\ [][Next]_vars

\* the right shifts by a register amount, rounding and truncating
RightShiftOps == {"srar_df", "srlr_df", "sra_df", "srl_df"}

InitRightShift == InitLanes(RightShiftOps)

NextRightShift ==
    \/ helper_msa_srar_df
    \/ helper_msa_srlr_df
    \/ helper_msa_sra_df
    \/ helper_msa_srl_df

SpecRightShift == InitRightShift /\ [][NextRightShift]_vars

(***************************************************************************)
(* An immediate-form helper followed by its register-form helper on the    *)
(* same source register, the register form reading the immediate from a    *)
(* register that holds it in every lane.  Both destinations start with the *)
(* same contents.                                                          *)
(***************************************************************************)
ImmShiftPairs ==
    {<<"slli_df", "sll_df">>, <<"srai_df", "sra_df">>,
     <<"srli_df", "srl_df">>, <<"srari_df", "srar_df">>,
     <<"srlri_df", "srlr_df">>}

ImmBitPairs ==
    {<<"bclri_df", "bclr_df">>, <<"bseti_df", "bset_df">>,
     <<"bnegi_df", "bneg_df">>, <<"binsli_df", "binsl_df">>,
     <<"binsri_df", "binsr_df">>}

\* the register with m (0 <= m <= 255) in every lane of format df
Broadcast(df, m) == [j \in 0..15 |-> IF j % LaneBytes(df) = 0 THEN m ELSE 0]

InitImmPair ==
    \E ops \in ImmShiftPairs \cup ImmBitPairs, df \in DF_BYTE..DF_DOUBLE,
       m \in 0..63 :
    \E ia \in {n \in {0, 8} : n % DF_ELEMENTS(df, MSA_WRLEN) = 0} :
        LET c1 == [Insn(ops[1], df, 5 + df, 1 + df) EXCEPT !.m = m]
            w2 == Fresh({c1.wd, c1.ws})
            c2 == [c1 EXCEPT !.op = ops[2], !.wd = w2,
                             !.wt = Fresh({c1.wd, c1.ws, w2})]
        IN  /\ fpr = [Bank(0) EXCEPT ![c1.ws] = SampleReg(df, ia),
                                     ![c1.wd] = SampleReg(df, 5),
                                     ![c2.wd] = SampleReg(df, 5),
                                     ![c2.wt] = Broadcast(df, m)]
            /\ gpr = Gprs(0)
            /\ msair = MSAIR_WRP_BIT
            /\ msamodify = {}
            /\ exception = "none"
            /\ prog = <<c1, c2>>
            /\ pc = 1
            /\ pre = [fpr |-> fpr, msamodify |-> msamodify]
            /\ written = {}
            /\ log = <<>>

NextImmPair ==
    \/ helper_msa_slli_df
    \/ helper_msa_sll_df
    \/ helper_msa_srai_df
    \/ helper_msa_sra_df
    \/ helper_msa_srli_df
    \/ helper_msa_srl_df
    \/ helper_msa_srari_df
    \/ helper_msa_srar_df
    \/ helper_msa_srlri_df
    \/ helper_msa_srlr_df
    \/ helper_msa_bclri_df
    \/ helper_msa_bclr_df
    \/ helper_msa_bseti_df
    \/ helper_msa_bset_df
    \/ helper_msa_bnegi_df
    \/ helper_msa_bneg_df
    \/ helper_msa_binsli_df
    \/ helper_msa_binsl_df
    \/ helper_msa_binsri_df
    \/ helper_msa_binsr_df

SpecImmPair == InitImmPair /\ [][NextImmPair]_vars

(***************************************************************************)
(* Properties of a single helper invocation (specification Spec).          *)
(***************************************************************************)
\* the WRP bit of MSAIR is set
WRP_ENABLED == BAnd(msair, MSAIR_WRP_BIT) # 0

\* the instruction the last helper called was invoked for
Last == prog[pc - 1]

\* the last helper called has returned to the translated code
Returned == pc > 1 /\ exception = "none"

\* the 16 bytes of register r, as <<register, byte>> pairs
AllBytes(r) == {<<r, j>> : j \in 0..15}

\* C1: whatever the helper, the data format and the destination wd, if the
\* WRP bit of msair is set when the helper is invoked then bit wd of
\* msamodify is 1 once the helper has returned (msair is not written by any
\* helper, so the bit is the same before and after the call)
C1_WrpSetsBitOfDestination ==
    (Returned /\ WRP_ENABLED) => Last.wd \in msamodify

\* vshf has returned with WRP set and has set a bit that was clear before
C1_Witness ==
    /\ Returned /\ WRP_ENABLED
    /\ Last.op = "vshf_df"
    /\ Last.wd \notin pre.msamodify
    /\ msamodify = pre.msamodify \cup {Last.wd}

\* C5: a helper that raised RI stored to no byte of any register and left
\* msamodify as it was; a helper that returned stored to all 16 bytes of its
\* destination; and in no case is the destination left with only a part of
\* its bytes stored to
C5_AllLanesOrNone ==
    pc > 1 =>
        /\ exception = "EXCP_RI" =>
              /\ written = {}
              /\ fpr = pre.fpr
              /\ msamodify = pre.msamodify
        /\ exception = "none" => written = AllBytes(Last.wd)
        /\ written \cap AllBytes(Last.wd) \in {{}, AllBytes(Last.wd)}

\* splat has passed the index check with a general-purpose register value
\* beyond the lane count and has stored to every byte of its destination
C5_Witness ==
    /\ Returned
    /\ Last.op = "splat_df"
    /\ ZGe(gpr[Last.rt], c64(DF_ELEMENTS(Last.df, MSA_WRLEN)))
    /\ written = AllBytes(Last.wd)
    /\ fpr[Last.wd] # pre.fpr[Last.wd]

\* the lane splat and sld select: the general-purpose register value modulo
\* the lane count
SelectedLane(c) == ZModSmall(u64(gpr[c.rt]), DF_ELEMENTS(c.df, MSA_WRLEN))

\* C6: no helper raises RI, whatever the data format, the register bank and
\* the general-purpose register values; splat stores to every lane of wd
\* the lane of ws whose index is the general-purpose register value modulo
\* the lane count (at df = double lane 1 for the value 7, lane 0 for 2)
C6_NoReservedInstruction ==
    /\ exception # "EXCP_RI"
    /\ (Returned /\ Last.op = "splat_df") =>
          \A i \in 0..(DF_ELEMENTS(Last.df, MSA_WRLEN) - 1) :
              Lane(fpr[Last.wd], LaneBytes(Last.df), i)
                  = Lane(pre.fpr[Last.ws], LaneBytes(Last.df), SelectedLane(Last))

\* splat at df = double with the general-purpose register value 7 has
\* returned with lane 1 of ws in both lanes of wd
C6_Witness ==
    /\ Returned
    /\ Last.op = "splat_df" /\ Last.df = DF_DOUBLE
    /\ gpr[Last.rt] = c64(7)
    /\ D(fpr[Last.wd], 0) = D(pre.fpr[Last.ws], 1)
    /\ D(fpr[Last.wd], 1) = D(pre.fpr[Last.ws], 1)
    /\ D(pre.fpr[Last.ws], 1) # D(pre.fpr[Last.ws], 0)

(***************************************************************************)
(* Properties of two helper invocations in a row (specification SpecAlias).*)
(***************************************************************************)
\* C2: over the invocations of a run msamodify only accumulates: no
\* invocation clears a bit, an invocation changes at most the bit wd of its
\* own destination, and an invocation made with the WRP bit clear leaves
\* msamodify unchanged
C2_MaskOnlyAccumulates ==
    [][/\ msamodify \subseteq msamodify'
       /\ msamodify' \subseteq msamodify \cup {prog[pc].wd}
       /\ ~WRP_ENABLED => msamodify' = msamodify]_vars

\* ldi has run twice with WRP set: the bit of the first destination is still
\* set after the second invocation added the bit of its own
C2_Witness ==
    /\ pc = 3 /\ exception = "none" /\ WRP_ENABLED
    /\ Last.op = "ldi_df"
    /\ prog[1].wd \in pre.msamodify
    /\ Last.wd \notin pre.msamodify
    /\ msamodify = pre.msamodify \cup {Last.wd}

\* both invocations of the run have returned
BothReturned == pc = 3 /\ exception = "none"

\* C3: a shape helper invoked with wd, ws and wt the same register leaves in
\* wd what it leaves in the wd of an invocation on distinct registers
\* loaded with the contents that register had
C3_ShapeAliased ==
    (/\ BothReturned
     /\ prog[1].op \in ShapeOps
     /\ prog[1].ws = prog[1].wd /\ prog[1].wt = prog[1].wd)
        => fpr[prog[1].wd] = fpr[prog[2].wd]

\* vshf has run on one register and on three, with equal results that
\* differ from the contents the registers had
C3_Witness ==
    /\ BothReturned
    /\ prog[1].op = "vshf_df"
    /\ prog[1].ws = prog[1].wd /\ prog[1].wt = prog[1].wd
    /\ Cardinality({prog[2].wd, prog[2].ws, prog[2].wt, prog[1].wd}) = 4
    /\ pre.fpr[prog[2].wd] = pre.fpr[prog[2].ws]
    /\ pre.fpr[prog[2].wd] = pre.fpr[prog[2].wt]
    /\ fpr[prog[1].wd] = fpr[prog[2].wd]
    /\ fpr[prog[2].wd] # pre.fpr[prog[2].wd]

\* C4: a per-lane helper invoked with wd equal to ws, to wt or to both
\* leaves in wd what it leaves in the wd of an invocation on a distinct
\* destination loaded with the contents wd had (and sources loaded with the
\* contents of the sources)
C4_PerLaneAliased ==
    (/\ BothReturned
     /\ prog[1].op \notin ShapeOps
     /\ prog[1].wd \in {prog[1].ws, prog[1].wt})
        => fpr[prog[1].wd] = fpr[prog[2].wd]

\* binsl has run with wd = wt and on distinct registers, with equal results
\* that differ from the contents the destination had
C4_Witness ==
    /\ BothReturned
    /\ prog[1].op = "binsl_df"
    /\ prog[1].wt = prog[1].wd /\ prog[1].ws # prog[1].wd
    /\ Cardinality({prog[2].wd, prog[2].ws, prog[2].wt, prog[1].wd}) = 4
    /\ fpr[prog[1].wd] = fpr[prog[2].wd]
    /\ fpr[prog[2].wd] # pre.fpr[prog[2].wd]

(***************************************************************************)
(* Properties of the lanes an arithmetic helper stores (specification      *)
(* SpecArith).  The operands and the results are compared as integers.     *)
(***************************************************************************)
\* the lanes of the format of the last instruction
Lanes == 0..(DF_ELEMENTS(Last.df, MSA_WRLEN) - 1)

\* lane i of ws and of wt at the entry of the last helper, and lane i of wd
\* now, as the signed and as the unsigned integers they hold
SA(i) == ZSext(Lane(pre.fpr[Last.ws], LaneBytes(Last.df), i), LaneBytes(Last.df), 8)
SB(i) == ZSext(Lane(pre.fpr[Last.wt], LaneBytes(Last.df), i), LaneBytes(Last.df), 8)
SD(i) == ZSext(Lane(fpr[Last.wd], LaneBytes(Last.df), i), LaneBytes(Last.df), 8)
UA(i) == ZZext(Lane(pre.fpr[Last.ws], LaneBytes(Last.df), i), LaneBytes(Last.df), 8)
UB(i) == ZZext(Lane(pre.fpr[Last.wt], LaneBytes(Last.df), i), LaneBytes(Last.df), 8)
UD(i) == ZZext(Lane(fpr[Last.wd], LaneBytes(Last.df), i), LaneBytes(Last.df), 8)

ZMin2(x, y) == IF ZLe(x, y) THEN x ELSE y
ZMax2(x, y) == IF ZGe(x, y) THEN x ELSE y
Clamp(x, lo, hi) == ZMax2(lo, ZMin2(x, hi))

\* x * y as an integer, on 24 limbs
ExactMul(x, y) == ZLowS(ZMulLow(ZWiden(x, 24), ZWiden(y, 24), 24), 24)

\* q is the quotient of a by b # 0 truncated toward zero and r the remainder
\* of that division: a = q * b + r, |r| < |b|, and r is zero or has the sign
\* of a
TruncDiv(a, b, q, r) ==
    /\ ZAdd(ExactMul(q, b), ZWiden(r, 24)) = ZWiden(a, 24)
    /\ ZLt(ZAbs(ZWiden(r, 24)), ZAbs(ZWiden(b, 24)))
    /\ ZIsZero(r) \/ ZIsNeg(r) = ZIsNeg(a)

\* q is the quotient of a by b # 0 truncated toward zero
TruncQuotient(a, b, q) ==
    TruncDiv(a, b, q, ZSub(ZWiden(a, 24), ExactMul(q, b)))

\* C7: div_s stores DF_MIN_INT for DF_MIN_INT / -1, 0 for a zero divisor and
\* otherwise the quotient truncated toward zero; mod_s stores 0 in both
\* special cases and otherwise the remainder with the sign of the dividend;
\* div_u and mod_u store 0 for a zero divisor and otherwise the quotient and
\* the remainder of the zero-extended lanes; none of them raises an
\* exception
C7_DivMod ==
    (pc > 1 /\ Last.op \in {"div_s_df", "mod_s_df", "div_u_df", "mod_u_df"}) =>
        /\ exception = "none"
        /\ \A i \in Lanes :
              CASE Last.op = "div_s_df" ->
                     IF SA(i) = LaneMin(Last.df) /\ SB(i) = c64(-1)
                     THEN SD(i) = LaneMin(Last.df)
                     ELSE IF ZIsZero(SB(i)) THEN ZIsZero(SD(i))
                     ELSE TruncQuotient(SA(i), SB(i), SD(i))
                [] Last.op = "mod_s_df" ->
                     IF SA(i) = LaneMin(Last.df) /\ SB(i) = c64(-1)
                     THEN ZIsZero(SD(i))
                     ELSE IF ZIsZero(SB(i)) THEN ZIsZero(SD(i))
                     ELSE TruncDiv(SA(i), SB(i), SDiv64(SA(i), SB(i)), SD(i))
                [] Last.op = "div_u_df" ->
                     IF ZIsZero(UB(i)) THEN ZIsZero(UD(i))
                     ELSE TruncQuotient(UA(i), UB(i), UD(i))
                [] Last.op = "mod_u_df" ->
                     IF ZIsZero(UB(i)) THEN ZIsZero(UD(i))
                     ELSE TruncDiv(UA(i), UB(i), UDiv64(UA(i), UB(i)), UD(i))

\* div_s has stored DF_MIN_INT for DF_MIN_INT / -1, 0 for a division by 0
\* and a negative quotient with a remainder dropped
C7_Witness ==
    /\ Returned /\ Last.op = "div_s_df"
    /\ \E i \in Lanes : /\ SA(i) = LaneMin(Last.df) /\ SB(i) = c64(-1)
                        /\ SD(i) = LaneMin(Last.df)
    /\ \E i \in Lanes : ZIsZero(SB(i)) /\ ~ZIsZero(SA(i)) /\ ZIsZero(SD(i))
    /\ \E i \in Lanes : SA(i) = c64(3) /\ SB(i) = c64(-2) /\ SD(i) = c64(-1)

\* C8: adds_s stores the sum of the sign-extended lanes clamped to
\* [DF_MIN_INT, DF_MAX_INT], subs_s their difference clamped to the same
\* range; adds_s with a zero second operand stores SIGNED(x, df)
C8_SignedSaturation ==
    (Returned /\ Last.op \in {"adds_s_df", "subs_s_df"}) =>
        \A i \in Lanes :
            /\ Last.op = "adds_s_df" =>
                  /\ SD(i) = Clamp(ZAdd(SA(i), SB(i)),
                                   LaneMin(Last.df), LaneMax(Last.df))
                  /\ ZIsZero(SB(i)) => SD(i) = SIGNED(UA(i), Last.df)
            /\ Last.op = "subs_s_df" =>
                  SD(i) = Clamp(ZSub(SA(i), SB(i)),
                                LaneMin(Last.df), LaneMax(Last.df))

\* adds_s has stored DF_MAX_INT for a sum beyond it, DF_MIN_INT for a sum
\* below it and a sum that is exactly DF_MAX_INT
C8_Witness ==
    /\ Returned /\ Last.op = "adds_s_df"
    /\ \E i \in Lanes : /\ ZGt(ZAdd(SA(i), SB(i)), LaneMax(Last.df))
                        /\ SD(i) = LaneMax(Last.df)
    /\ \E i \in Lanes : /\ ZLt(ZAdd(SA(i), SB(i)), LaneMin(Last.df))
                        /\ SD(i) = LaneMin(Last.df)
    /\ \E i \in Lanes : /\ ZAdd(SA(i), SB(i)) = LaneMax(Last.df)
                        /\ ~ZIsZero(SB(i))
                        /\ SD(i) = LaneMax(Last.df)

\* C9: adds_u stores min(a + b, DF_MAX_UINT) and subs_u max(0, a - b) of
\* the lanes taken as unsigned numbers; adds_u with a zero second operand
\* stores UNSIGNED(x, df)
C9_UnsignedSaturation ==
    (Returned /\ Last.op \in {"adds_u_df", "subs_u_df"}) =>
        \A i \in Lanes :
            /\ Last.op = "adds_u_df" =>
                  /\ UD(i) = ZMin2(ZAdd(UA(i), UB(i)), LaneUMax(Last.df))
                  /\ ZIsZero(UB(i)) => UD(i) = UNSIGNED(SA(i), Last.df)
            /\ Last.op = "subs_u_df" =>
                  UD(i) = ZMax2(c64(0), ZSub(UA(i), UB(i)))

\* adds_u at df = half has stored 0xFFFF for 0xFFFE + 0x0003
C9_Witness ==
    /\ Returned /\ Last.op = "adds_u_df" /\ Last.df = DF_HALF
    /\ \E i \in Lanes : /\ UA(i) = <<254, 255, 0, 0, 0, 0, 0, 0, 0>>
                        /\ UB(i) = c64(3)
                        /\ UD(i) = <<255, 255, 0, 0, 0, 0, 0, 0, 0>>

\* C10: adds_a stores DF_MAX_INT when |a| or |b| exceeds DF_MAX_INT, and
\* otherwise min(|a| + |b|, DF_MAX_INT), of the sign-extended lanes; the
\* lane stored is never negative read as signed
C10_AbsoluteSaturation ==
    (Returned /\ Last.op = "adds_a_df") =>
        \A i \in Lanes :
            /\ SD(i) = IF \/ ZGt(ZAbs(SA(i)), LaneMax(Last.df))
                          \/ ZGt(ZAbs(SB(i)), LaneMax(Last.df))
                       THEN LaneMax(Last.df)
                       ELSE ZMin2(ZAdd(ZAbs(SA(i)), ZAbs(SB(i))),
                                  LaneMax(Last.df))
            /\ ~ZIsNeg(SD(i))

\* adds_a has stored DF_MAX_INT for an operand equal to DF_MIN_INT added to
\* zero, and the sum of two absolute values below the limit
C10_Witness ==
    /\ Returned /\ Last.op = "adds_a_df"
    /\ \E i \in Lanes : /\ SB(i) = LaneMin(Last.df) /\ ZIsZero(SA(i))
                        /\ SD(i) = LaneMax(Last.df)
    /\ \E i \in Lanes : /\ SA(i) = c64(3) /\ SB(i) = c64(-7)
                        /\ SD(i) = c64(10)
    /\ \E i \in Lanes : /\ SA(i) = c64(-2) /\ SB(i) = c64(7)
                        /\ SD(i) = c64(9)
(***************************************************************************)
(* Properties of the mixed-sign subtractions and of the averages           *)
(* (specification SpecSatAvg).                                             *)
(***************************************************************************)
\* C11: subsuu_s stores the difference a - b of the lanes read as unsigned
\* W-bit numbers, computed on exact integers and clamped to
\* [DF_MIN_INT, DF_MAX_INT], although both lanes are loaded sign-extended
C11_SubsuuS ==
    (Returned /\ Last.op = "subsuu_s_df") =>
        \A i \in Lanes :
            SD(i) = Clamp(ZSub(UA(i), UB(i)), LaneMin(Last.df), LaneMax(Last.df))

\* subsuu_s has stored DF_MAX_INT for 0xFF..F - 0, whose lanes are -1 and 0
\* when sign-extended, and DF_MIN_INT for a difference below the range
C11_Witness ==
    /\ Returned /\ Last.op = "subsuu_s_df"
    /\ \E i \in Lanes : /\ SA(i) = c64(-1) /\ ZIsZero(SB(i))
                        /\ SD(i) = LaneMax(Last.df)
    /\ \E i \in Lanes : /\ ZLt(ZSub(UA(i), UB(i)), LaneMin(Last.df))
                        /\ SD(i) = LaneMin(Last.df)

\* C12: subsus_u stores the difference a - b, a the ws lane read as an
\* unsigned and b the wt lane read as a signed W-bit number, computed on
\* exact integers and clamped to [0, DF_MAX_UINT]: max(0, a - b) for b >= 0
\* and min(a + |b|, DF_MAX_UINT) for b < 0, b = DF_MIN_INT included
C12_SubsusU ==
    (Returned /\ Last.op = "subsus_u_df") =>
        \A i \in Lanes :
            /\ UD(i) = Clamp(ZSub(UA(i), SB(i)), c64(0), LaneUMax(Last.df))
            /\ ~ZIsNeg(SB(i)) => UD(i) = ZMax2(c64(0), ZSub(UA(i), SB(i)))
            /\ ZIsNeg(SB(i)) =>
                  UD(i) = ZMin2(ZAdd(UA(i), ZAbs(SB(i))), LaneUMax(Last.df))

\* subsus_u has stored DF_MAX_UINT for 0xFF..F - DF_MIN_INT, 0 for 0 - 1 and
\* 4 for 2 - (-2)
C12_Witness ==
    /\ Returned /\ Last.op = "subsus_u_df"
    /\ \E i \in Lanes : /\ UA(i) = LaneUMax(Last.df)
                        /\ SB(i) = LaneMin(Last.df)
                        /\ UD(i) = LaneUMax(Last.df)
    /\ \E i \in Lanes : ZIsZero(UA(i)) /\ SB(i) = c64(1) /\ ZIsZero(UD(i))
    /\ \E i \in Lanes : UA(i) = c64(2) /\ SB(i) = c64(-2) /\ UD(i) = c64(4)

\* d = floor(x / 2) for integers d and x
IsFloorHalf(d, x) == ZAdd(d, d) = x \/ ZAdd(d, d) = ZSub(x, c64(1))

\* C13: ave_s and ave_u store floor((a + b) / 2) and aver_s and aver_u
\* floor((a + b + 1) / 2), a + b the exact sum of the sign-extended (_s) or
\* zero-extended (_u) lanes, both operands at an extreme of the range
\* included
C13_Averages ==
    (Returned /\ Last.op \in {"ave_s_df", "ave_u_df", "aver_s_df", "aver_u_df"}) =>
        \A i \in Lanes :
            CASE Last.op = "ave_s_df" ->
                   IsFloorHalf(SD(i), ZAdd(SA(i), SB(i)))
              [] Last.op = "ave_u_df" ->
                   IsFloorHalf(UD(i), ZAdd(UA(i), UB(i)))
              [] Last.op = "aver_s_df" ->
                   IsFloorHalf(SD(i), ZAdd(ZAdd(SA(i), SB(i)), c64(1)))
              [] Last.op = "aver_u_df" ->
                   IsFloorHalf(UD(i), ZAdd(ZAdd(UA(i), UB(i)), c64(1)))

\* ave_s has stored DF_MAX_INT for two lanes of DF_MAX_INT, DF_MIN_INT for
\* two lanes of DF_MIN_INT: sums that do not fit the lane
C13_Witness ==
    /\ Returned /\ Last.op = "ave_s_df"
    /\ \E i \in Lanes : /\ SA(i) = LaneMax(Last.df) /\ SB(i) = LaneMax(Last.df)
                        /\ SD(i) = LaneMax(Last.df)
    /\ \E i \in Lanes : /\ SA(i) = LaneMin(Last.df) /\ SB(i) = LaneMin(Last.df)
                        /\ SD(i) = LaneMin(Last.df)

(***************************************************************************)
(* Properties of the maxima and minima (specification SpecMinMax).         *)
(***************************************************************************)
\* the second operand of lane i of the last max/min helper, as the W-bit
\* lane pattern it stands for: lane i of wt, or the immediate
OperandB(i) ==
    IF Last.op \in {"maxi_s_df", "mini_s_df"}
    THEN ZLowU(c64(Last.s5), LaneBytes(Last.df))
    ELSE IF Last.op \in {"maxi_u_df", "mini_u_df"}
    THEN ZLowU(c64(Last.u5), LaneBytes(Last.df))
    ELSE Lane(pre.fpr[Last.wt], LaneBytes(Last.df), i)

\* that operand as the signed and as the unsigned integer it holds
SOp(i) == ZSext(OperandB(i), LaneBytes(Last.df), 8)
UOp(i) == ZZext(OperandB(i), LaneBytes(Last.df), 8)

\* C14: the lane a max/min helper stores is the bit pattern of one of its
\* two operands, a from ws and b from wt or the immediate; for max_s/min_s
\* it is >= / <= both under signed comparison at width W, for max_u/min_u
\* under unsigned comparison; max_a/min_a store a when |a| is strictly
\* larger/smaller than |b| and b otherwise, so b when |a| = |b|
C14_MinMax ==
    (Returned /\ Last.op \in MinMaxOps) =>
        \A i \in Lanes :
            /\ SD(i) \in {SA(i), SOp(i)}
            /\ Last.op \in {"max_s_df", "maxi_s_df"} =>
                  ZGe(SD(i), SA(i)) /\ ZGe(SD(i), SOp(i))
            /\ Last.op \in {"min_s_df", "mini_s_df"} =>
                  ZLe(SD(i), SA(i)) /\ ZLe(SD(i), SOp(i))
            /\ Last.op \in {"max_u_df", "maxi_u_df"} =>
                  ZGe(UD(i), UA(i)) /\ ZGe(UD(i), UOp(i))
            /\ Last.op \in {"min_u_df", "mini_u_df"} =>
                  ZLe(UD(i), UA(i)) /\ ZLe(UD(i), UOp(i))
            /\ Last.op = "max_a_df" =>
                  SD(i) = IF ZGt(ZAbs(SA(i)), ZAbs(SOp(i)))
                          THEN SA(i) ELSE SOp(i)
            /\ Last.op = "min_a_df" =>
                  SD(i) = IF ZLt(ZAbs(SA(i)), ZAbs(SOp(i)))
                          THEN SA(i) ELSE SOp(i)

\* max_a has stored b = -1 for a = 1, whose absolute values are equal, and
\* a = DF_MIN_INT for b = DF_MAX_INT
C14_Witness ==
    /\ Returned /\ Last.op = "max_a_df"
    /\ \E i \in Lanes : SA(i) = c64(1) /\ SB(i) = c64(-1) /\ SD(i) = c64(-1)
    /\ \E i \in Lanes : /\ SA(i) = LaneMin(Last.df) /\ SB(i) = LaneMax(Last.df)
                        /\ SD(i) = LaneMin(Last.df)

(***************************************************************************)
(* Properties of the single-bit helpers (specification SpecBitPair).       *)
(***************************************************************************)
\* bit j of the lane pattern z
LaneBit(z, j) == (z[(j \div 8) + 1] \div Pow2(j % 8)) % 2

\* the bit positions of a lane of format df
LaneBits(df) == 0..(DF_BITS(df) - 1)

\* lane i of register r now, as a lane pattern of the format of prog[1]
LaneNow(r, i) == Lane(fpr[r], LaneBytes(prog[1].df), i)

\* k mod W for the bit-index operand k in lane i of the wt of prog[1]
BitIndex(i) ==
    ZModSmall(ZZext(LaneNow(prog[1].wt, i), LaneBytes(prog[1].df), 8),
              DF_BITS(prog[1].df))

\* C15: as W-bit lane results bclr(bset(x, k), k) is x with bit k mod W
\* cleared and bneg(bneg(x, k), k) is the W-bit pattern of x; each of
\* bclr, bset and bneg leaves every bit of x but bit k mod W as it was,
\* and clears, sets or inverts that bit
C15_SingleBit ==
    \A i \in 0..(DF_ELEMENTS(prog[1].df, MSA_WRLEN) - 1) :
        /\ (pc = 3 /\ prog[1].op = "bset_df") =>
              \A j \in LaneBits(prog[1].df) :
                  LaneBit(LaneNow(prog[2].wd, i), j)
                      = IF j = BitIndex(i) THEN 0
                        ELSE LaneBit(LaneNow(prog[1].ws, i), j)
        /\ (pc = 3 /\ prog[1].op = "bneg_df") =>
              LaneNow(prog[2].wd, i) = LaneNow(prog[1].ws, i)
        /\ pc > 1 =>
              \A j \in LaneBits(prog[1].df) :
                  LaneBit(LaneNow(Last.wd, i), j)
                      = IF j # BitIndex(i) THEN LaneBit(LaneNow(Last.ws, i), j)
                        ELSE CASE Last.op = "bclr_df" -> 0
                               [] Last.op = "bset_df" -> 1
                               [] Last.op = "bneg_df" ->
                                    1 - LaneBit(LaneNow(Last.ws, i), j)

\* bset then bclr have run on a lane whose bit k mod W was clear and on a
\* lane whose bit was set, with a bit index beyond the lane width
C15_Witness ==
    /\ pc = 3 /\ exception = "none"
    /\ prog[1].op = "bset_df" /\ prog[2].op = "bclr_df"
    /\ \E i \in 0..(DF_ELEMENTS(prog[1].df, MSA_WRLEN) - 1) :
          /\ LaneBit(LaneNow(prog[1].ws, i), BitIndex(i)) = 1
          /\ LaneNow(prog[2].wd, i) # LaneNow(prog[1].ws, i)
          /\ ZGe(ZZext(LaneNow(prog[1].wt, i), LaneBytes(prog[1].df), 8),
                 c64(DF_BITS(prog[1].df)))
    /\ \E i \in 0..(DF_ELEMENTS(prog[1].df, MSA_WRLEN) - 1) :
          /\ LaneBit(LaneNow(prog[1].ws, i), BitIndex(i)) = 0
          /\ LaneNow(prog[2].wd, i) = LaneNow(prog[1].ws, i)
          /\ LaneNow(prog[1].wd, i) # LaneNow(prog[1].ws, i)

(***************************************************************************)
(* Properties of the bit inserts (specification SpecBitInsert).            *)
(***************************************************************************)
\* lane i of register r at the entry of the last helper and now, as lane
\* patterns of the format of the last instruction
LanePre(r, i) == Lane(pre.fpr[r], LaneBytes(Last.df), i)
LanePost(r, i) == Lane(fpr[r], LaneBytes(Last.df), i)

\* the field width f = BIT_POSITION(b, df) + 1 of lane i of the last bit
\* insert, b being lane i of wt or the immediate m
FieldWidth(i) ==
    IF Last.op \in {"binsli_df", "binsri_df"}
    THEN (Last.m % DF_BITS(Last.df)) + 1
    ELSE ZModSmall(UB(i), DF_BITS(Last.df)) + 1

\* C16: with f = BIT_POSITION(b, df) + 1, binsl stores the top f bits of
\* the source lane a over the top f bits of the previous destination lane d
\* and keeps the low W - f bits of d; binsr stores the bottom f bits of a
\* over the bottom f bits of d and keeps the high W - f bits of d; with
\* f = W both store a
C16_BitInsert ==
    (Returned /\ Last.op \in BitInsertOps) =>
        \A i \in Lanes :
            /\ \A j \in LaneBits(Last.df) :
                  LaneBit(LanePost(Last.wd, i), j)
                      = IF Last.op \in {"binsl_df", "binsli_df"}
                        THEN IF j >= DF_BITS(Last.df) - FieldWidth(i)
                             THEN LaneBit(LanePre(Last.ws, i), j)
                             ELSE LaneBit(LanePre(Last.wd, i), j)
                        ELSE IF j < FieldWidth(i)
                             THEN LaneBit(LanePre(Last.ws, i), j)
                             ELSE LaneBit(LanePre(Last.wd, i), j)
            /\ FieldWidth(i) = DF_BITS(Last.df) =>
                  LanePost(Last.wd, i) = LanePre(Last.ws, i)

\* binsl has stored a whole source lane for the field width W, and in
\* another lane a pattern that is neither the source nor the previous
\* destination lane
C16_Witness ==
    /\ Returned /\ Last.op = "binsl_df"
    /\ \E i \in Lanes : /\ FieldWidth(i) = DF_BITS(Last.df)
                        /\ LanePost(Last.wd, i) = LanePre(Last.ws, i)
                        /\ LanePre(Last.wd, i) # LanePre(Last.ws, i)
    /\ \E i \in Lanes : /\ FieldWidth(i) < DF_BITS(Last.df)
                        /\ LanePost(Last.wd, i) # LanePre(Last.ws, i)
                        /\ LanePost(Last.wd, i) # LanePre(Last.wd, i)

(***************************************************************************)
(* Properties of the right shifts (specification SpecRightShift).          *)
(***************************************************************************)
\* the shift amount k = BIT_POSITION(b, df) of lane i of the last helper
ShiftAmount(i) == ZModSmall(UB(i), DF_BITS(Last.df))

\* 2^k as an integer, 0 <= k <= 63
ZPow2(k) == Shl64(c64(1), k)

\* d = floor(x / 2^k) for integers d and x: d * 2^k <= x < (d + 1) * 2^k
IsFloorShift(d, x, k) ==
    LET lo == ExactMul(d, ZPow2(k))
    IN  /\ ZLe(lo, ZWiden(x, 24))
        /\ ZLt(ZWiden(x, 24), ZAdd(lo, ZWiden(ZPow2(k), 24)))

\* d = (a >> k) + ((a >> (k - 1)) & 1) for k > 0, >> being the floor of the
\* division by a power of two: d = floor((a + 2^(k-1)) / 2^k)
IsRoundedShift(d, a, k) ==
    IsFloorShift(d, ZAdd(ZWiden(a, 24), ZWiden(ZPow2(k - 1), 24)), k)

\* C17: with k = BIT_POSITION(b, df), srar stores a for k = 0 and otherwise
\* (a >> k) + ((a >> (k - 1)) & 1) with the arithmetic shift of the
\* sign-extended lane, srlr the same with the logical shift of the
\* zero-extended lane; sra and srl store a >> k without the rounding bit, so
\* at df = word srar(3, 1) is 2 while sra(3, 1) is 1
C17_RoundedShift ==
    (Returned /\ Last.op \in RightShiftOps) =>
        \A i \in Lanes :
            CASE Last.op = "srar_df" ->
                   IF ShiftAmount(i) = 0 THEN SD(i) = SA(i)
                   ELSE IsRoundedShift(SD(i), SA(i), ShiftAmount(i))
              [] Last.op = "srlr_df" ->
                   IF ShiftAmount(i) = 0 THEN UD(i) = UA(i)
                   ELSE IsRoundedShift(UD(i), UA(i), ShiftAmount(i))
              [] Last.op = "sra_df" ->
                   IsFloorShift(SD(i), SA(i), ShiftAmount(i))
              [] Last.op = "srl_df" ->
                   IsFloorShift(UD(i), UA(i), ShiftAmount(i))

\* srar at df = word has stored 2 for a = 3 and k = 1
C17_Witness ==
    /\ Returned /\ Last.op = "srar_df" /\ Last.df = DF_WORD
    /\ \E i \in Lanes : /\ SA(i) = c64(3) /\ SB(i) = c64(1)
                        /\ SD(i) = c64(2)

(***************************************************************************)
(* Properties of the immediate forms (specification SpecImmPair).          *)
(***************************************************************************)
\* the pair of opcodes of the run
RunOps == <<prog[1].op, prog[2].op>>

\* C18 as stated: for every immediate m in 0..63 each immediate-form shift
\* (slli, srai, srli, srari, srlri) stores the lanes the register form
\* (sll, sra, srl, srar, srlr) stores for the second operand m, that is the
\* lane shifted by m mod W, and the same holds for bclri, bseti, bnegi,
\* binsli and binsri against bclr, bset, bneg, binsl and binsr
C18_ImmediateAsRegister ==
    BothReturned => fpr[prog[1].wd] = fpr[prog[2].wd]

\* C18 amended: an immediate-form shift stores the lanes the register form
\* stores for the second operand m for every immediate m in 0..W-1 (the
\* shift is by m itself, which is m mod W only then); bclri, bseti, bnegi,
\* binsli and binsri store the lanes of bclr, bset, bneg, binsl and binsr
\* for every m in 0..63
C18_ImmediateAsRegisterInRange ==
    (/\ BothReturned
     /\ RunOps \in ImmBitPairs \/ prog[1].m < DF_BITS(prog[1].df))
        => fpr[prog[1].wd] = fpr[prog[2].wd]

\* srari and srar have stored the same lanes for an immediate 0 < m < W,
\* and lanes that differ from the source register
C18_Witness ==
    /\ BothReturned
    /\ RunOps = <<"srari_df", "srar_df">>
    /\ prog[1].m > 0 /\ prog[1].m < DF_BITS(prog[1].df)
    /\ fpr[prog[1].wd] = fpr[prog[2].wd]
    /\ fpr[prog[1].wd] # fpr[prog[1].ws]

(***************************************************************************)
(* Properties of the horizontal operations and the dot products            *)
(* (specification SpecDot).  The halves of the lanes and the results are   *)
(* compared as integers.                                                   *)
(***************************************************************************)
\* the last helper is a signed one
SignedOp ==
    Last.op \in {"hadd_s_df", "hsub_s_df", "dotp_s_df", "dpadd_s_df",
                 "dpsub_s_df"}

\* bytes of half a lane of the format of the last instruction (df > 0)
HalfBytes == LaneBytes(Last.df) \div 2

\* the integer held by the h-byte pattern z, signed or unsigned as the last
\* helper takes it
HalfValue(z) ==
    IF SignedOp THEN ZSext(z, HalfBytes, 8) ELSE ZZext(z, HalfBytes, 8)

\* even(x): the lower W/2 bits, odd(x): the upper W/2 bits of the lane
\* pattern x
EvenHalf(x) == HalfValue(Tup([k \in 1..HalfBytes |-> x[k]]))
OddHalf(x) == HalfValue(Tup([k \in 1..HalfBytes |-> x[HalfBytes + k]]))

\* the integer x reduced modulo 2^W, as a lane pattern
ModLane(x) == Tup([k \in 1..LaneBytes(Last.df) |-> ZWiden(x, 24)[k]])

\* even(a) * even(b) + odd(a) * odd(b) for lane i of ws and of wt
DotProduct(i) ==
    ZAdd(ExactMul(EvenHalf(LanePre(Last.ws, i)), EvenHalf(LanePre(Last.wt, i))),
         ExactMul(OddHalf(LanePre(Last.ws, i)), OddHalf(LanePre(Last.wt, i))))

\* the previous destination lane as an unsigned integer (any integer
\* congruent to it modulo 2^W gives the same result)
UD0(i) == ZZext(LanePre(Last.wd, i), LaneBytes(Last.df), 8)
DestValue(i) == ZWiden(UD0(i), 24)

\* C19: at df = half, word and double, with odd(x) the upper and even(x)
\* the lower W/2 bits of a lane, sign-extended for _s and zero-extended for
\* _u, hadd stores odd(a) + even(b), hsub odd(a) - even(b), dotp
\* even(a) * even(b) + odd(a) * odd(b), dpadd d plus that sum of products
\* and dpsub d minus it, each reduced modulo 2^W
C19_HorizontalAndDot ==
    (Returned /\ Last.op \in DotOps /\ Last.df # DF_BYTE) =>
        \A i \in Lanes :
            LanePost(Last.wd, i) = ModLane(
                CASE Last.op \in {"hadd_s_df", "hadd_u_df"} ->
                       ZAdd(OddHalf(LanePre(Last.ws, i)),
                            EvenHalf(LanePre(Last.wt, i)))
                  [] Last.op \in {"hsub_s_df", "hsub_u_df"} ->
                       ZSub(OddHalf(LanePre(Last.ws, i)),
                            EvenHalf(LanePre(Last.wt, i)))
                  [] Last.op \in {"dotp_s_df", "dotp_u_df"} ->
                       DotProduct(i)
                  [] Last.op \in {"dpadd_s_df", "dpadd_u_df"} ->
                       ZAdd(DestValue(i), DotProduct(i))
                  [] Last.op \in {"dpsub_s_df", "dpsub_u_df"} ->
                       ZSub(DestValue(i), DotProduct(i)))

\* dpsub_s has subtracted from a non-zero destination lane a sum of two
\* non-zero products, one of them negative
C19_Witness ==
    /\ Returned /\ Last.op = "dpsub_s_df" /\ Last.df # DF_BYTE
    /\ \E i \in Lanes :
          /\ ~ZIsZero(UD0(i))
          /\ ZIsNeg(ExactMul(OddHalf(LanePre(Last.ws, i)),
                             OddHalf(LanePre(Last.wt, i))))
          /\ ~ZIsZero(ExactMul(EvenHalf(LanePre(Last.ws, i)),
                               EvenHalf(LanePre(Last.wt, i))))
          /\ LanePost(Last.wd, i) # LanePre(Last.wd, i)

(***************************************************************************)
(* Properties of vshf (specification SpecVshf).                            *)
(***************************************************************************)
\* the low byte of lane i of wd at the entry of the last helper
ControlByte(i) == LanePre(Last.wd, i)[1]

\* k = (wd[i] & 0x3f) mod 2n
Selected(i) == (ControlByte(i) % 64) % (2 * DF_ELEMENTS(Last.df, MSA_WRLEN))

\* the lane pattern 0
ZeroLane == Tup([k \in 1..LaneBytes(Last.df) |-> 0])

\* C20: for every output lane i of vshf, with the value wd had before the
\* invocation as selector: the lane is 0 when bits 7 and 6 of wd[i] are
\* not both zero, whatever ws and wt hold; otherwise, with
\* k = (wd[i] & 0x3f) mod 2n, it is wt[k] when k < n and ws[k - n] when
\* k >= n
C20_Vshf ==
    (Returned /\ Last.op = "vshf_df") =>
        \A i \in Lanes :
            LanePost(Last.wd, i) =
                IF (ControlByte(i) \div 64) % 4 # 0 THEN ZeroLane
                ELSE IF Selected(i) < DF_ELEMENTS(Last.df, MSA_WRLEN)
                THEN LanePre(Last.wt, Selected(i))
                ELSE LanePre(Last.ws,
                             Selected(i) - DF_ELEMENTS(Last.df, MSA_WRLEN))

\* vshf has stored 0 for the control byte 0xC0, a lane of wt and a lane of
\* ws, both non-zero
C20_Witness ==
    /\ Returned /\ Last.op = "vshf_df"
    /\ \E i \in Lanes : ControlByte(i) = 192 /\ LanePost(Last.wd, i) = ZeroLane
    /\ \E i \in Lanes :
          /\ ControlByte(i) < 64
          /\ Selected(i) < DF_ELEMENTS(Last.df, MSA_WRLEN)
          /\ LanePost(Last.wd, i) = LanePre(Last.wt, Selected(i))
          /\ LanePost(Last.wd, i) # ZeroLane
    /\ \E i \in Lanes :
          /\ ControlByte(i) < 64
          /\ Selected(i) >= DF_ELEMENTS(Last.df, MSA_WRLEN)
          /\ LanePost(Last.wd, i)
                = LanePre(Last.ws, Selected(i) - DF_ELEMENTS(Last.df, MSA_WRLEN))
          /\ LanePost(Last.wd, i) # ZeroLane

(***************************************************************************)
(* Properties of shf (specification SpecShf).                              *)
(***************************************************************************)
\* (i & ~3) | ((imm >> (2 * (i & 3))) & 3), on integers
ShfSource(i) == 4 * (i \div 4) + ((Last.imm \div (4 ^ (i % 4))) % 4)

\* C21: at df = byte, half and word, for every 8-bit immediate and every
\* output lane i, shf stores ws[(i & ~3) | ((imm >> (2 * (i & 3))) & 3)]
\* of the register contents before the call; the source lane lies in the
\* group of 4 lanes of i and inside the register
C21_Shf ==
    (Returned /\ Last.op = "shf_df") =>
        \A i \in Lanes :
            /\ ShfSource(i) \in Lanes
            /\ ShfSource(i) \div 4 = i \div 4
            /\ LanePost(Last.wd, i) = LanePre(Last.ws, ShfSource(i))

\* shf with imm = 0x1B at df = word has reversed four different lanes
C21_Witness ==
    /\ Returned /\ Last.op = "shf_df"
    /\ Last.df = DF_WORD /\ Last.imm = 27
    /\ \A i \in 0..3 : LanePost(Last.wd, i) = LanePre(Last.ws, 3 - i)
    /\ \A i, j \in 0..3 : i # j => LanePre(Last.ws, i) # LanePre(Last.ws, j)

(***************************************************************************)
(* Properties of sld (specification SpecSld).                              *)
(***************************************************************************)
\* n = gpr[rt] mod the number of lanes
SlideN == ZModSmall(u64(gpr[Last.rt]), 16 \div LaneBytes(Last.df))

\* byte j of the concatenation whose low s bytes are bytes s*k.. of the old
\* ws and whose high s bytes are bytes s*k.. of the old wd
Concat(s, k, j) ==
    IF j < s THEN pre.fpr[Last.ws][s * k + j]
    ELSE pre.fpr[Last.wd][s * k + j - s]

\* C22: sld at df = byte stores in byte i of wd byte i + n of the 32-byte
\* concatenation of the old ws (low) and the old wd (high); in every
\* format each element i + n of the scratch buffer that the slide of a
\* slice reads lies inside the buffer and was assigned from ws or wd for
\* that slice
C22_SldByte ==
    (Returned /\ Last.op = "sld_df") =>
        /\ Last.df = DF_BYTE =>
              \A i \in 0..15 :
                  fpr[Last.wd][i] =
                      IF i + SlideN < 16 THEN pre.fpr[Last.ws][i + SlideN]
                      ELSE pre.fpr[Last.wd][i + SlideN - 16]
        /\ LET s == 16 \div (2 ^ Last.df)
           IN  \A k \in 0..(2 ^ Last.df - 1), i \in 0..(s - 1) :
                   /\ i + SlideN \in 0..63
                   /\ SlideBuffer(pre, Last.wd, Last.ws, s, k)[i + SlideN]
                          \in 0..255

\* sld at df = byte has taken bytes from ws and from the old wd, which
\* differ from the bytes they replace
C22_Witness ==
    /\ Returned /\ Last.op = "sld_df" /\ Last.df = DF_BYTE
    /\ SlideN = 5
    /\ fpr[Last.wd][10] = pre.fpr[Last.ws][15]
    /\ fpr[Last.wd][11] = pre.fpr[Last.wd][0]
    /\ fpr[Last.wd][10] # pre.fpr[Last.wd][10]
    /\ fpr[Last.wd][11] # pre.fpr[Last.wd][11]

\* slices of 128/2^(3-df) bits, in bytes
ClaimedSliceBytes == 16 \div (2 ^ (3 - Last.df))

\* sld at df = half, word and double read as 2^df slices of 128/2^(3-df)
\* bits, each slid by n element positions
C23_SldSlicesOfElements ==
    (Returned /\ Last.op = "sld_df" /\ Last.df # DF_BYTE) =>
        /\ (2 ^ Last.df) * ClaimedSliceBytes = 16
        /\ \A k \in 0..(2 ^ Last.df - 1), i \in 0..(ClaimedSliceBytes - 1) :
               /\ i + SlideN * LaneBytes(Last.df) < 2 * ClaimedSliceBytes
               /\ fpr[Last.wd][ClaimedSliceBytes * k + i] =
                      Concat(ClaimedSliceBytes, k,
                             i + SlideN * LaneBytes(Last.df))

\* C23: sld at df = half, word and double processes the register as 2^df
\* independent slices of 128/2^df bits; within each slice the
\* concatenation of the slice of ws and the slice of wd is slid by
\* n = gpr[rt] mod (128/W) byte positions, and no byte of another slice
\* enters the result
C23_SldSlices ==
    (Returned /\ Last.op = "sld_df" /\ Last.df # DF_BYTE) =>
        LET s == 16 \div (2 ^ Last.df)
        IN  \A k \in 0..(2 ^ Last.df - 1), i \in 0..(s - 1) :
                fpr[Last.wd][s * k + i] = Concat(s, k, i + SlideN)

\* sld at df = word, n = 3, has changed every slice: byte 0 of slice k is
\* byte 3 of slice k of ws, byte 1 is byte 0 of slice k of the old wd
C23_Witness ==
    /\ Returned /\ Last.op = "sld_df" /\ Last.df = DF_WORD
    /\ SlideN = 3
    /\ \A k \in 0..3 :
          /\ fpr[Last.wd][4 * k] = pre.fpr[Last.ws][4 * k + 3]
          /\ fpr[Last.wd][4 * k + 1] = pre.fpr[Last.wd][4 * k]
          /\ fpr[Last.wd][4 * k] # pre.fpr[Last.wd][4 * k]

(***************************************************************************)
(* Properties of splat (specification SpecSplat).                          *)
(***************************************************************************)
\* C24: for every format with n lanes and every value v of gpr[rt], after
\* splat every lane of wd equals lane v mod n of ws as it was before the
\* call, also when wd and ws are the same register
C24_Splat ==
    (Returned /\ Last.op = "splat_df") =>
        \A i \in Lanes :
            LanePost(Last.wd, i) =
                LanePre(Last.ws,
                        ZModSmall(u64(gpr[Last.rt]),
                                  DF_ELEMENTS(Last.df, MSA_WRLEN)))

\* splat with wd = ws has broadcast a lane other than lane 0 over lanes
\* that held other values
C24_Witness ==
    /\ Returned /\ Last.op = "splat_df" /\ Last.wd = Last.ws
    /\ ZModSmall(u64(gpr[Last.rt]), DF_ELEMENTS(Last.df, MSA_WRLEN)) = 1
    /\ ZGt(u64(gpr[Last.rt]), c64(16))
    /\ \A i \in Lanes : LanePost(Last.wd, i) = LanePre(Last.ws, 1)
    /\ \A i \in Lanes \ {1} : LanePre(Last.wd, i) # LanePre(Last.ws, 1)

(***************************************************************************)
(* Properties of the interleaves and packs (SpecInterleave, SpecPack).     *)
(***************************************************************************)
\* i in [0, n/2)
HalfLanes == 0..(DF_ELEMENTS(Last.df, MSA_WRLEN) \div 2 - 1)

\* n/2
HalfCount == DF_ELEMENTS(Last.df, MSA_WRLEN) \div 2

\* the lane of wt and of ws that output lanes 2i and 2i + 1 of an
\* interleave come from
InterleaveSource(i) ==
    CASE Last.op = "ilvev_df" -> 2 * i
      [] Last.op = "ilvod_df" -> 2 * i + 1
      [] Last.op = "ilvr_df"  -> i
      [] Last.op = "ilvl_df"  -> HalfCount + i

\* C25: for every format with n lanes and every i in [0, n/2), ilvev
\* stores wd[2i] = wt[2i], wd[2i+1] = ws[2i]; ilvod wd[2i] = wt[2i+1],
\* wd[2i+1] = ws[2i+1]; ilvr wd[2i] = wt[i], wd[2i+1] = ws[i]; ilvl
\* wd[2i] = wt[n/2+i], wd[2i+1] = ws[n/2+i], all of the registers as they
\* were before the call
C25_Interleave ==
    (Returned /\ Last.op \in InterleaveOps) =>
        \A i \in HalfLanes :
            /\ LanePost(Last.wd, 2 * i) = LanePre(Last.wt, InterleaveSource(i))
            /\ LanePost(Last.wd, 2 * i + 1)
                   = LanePre(Last.ws, InterleaveSource(i))

\* ilvl with wd = ws at df = byte has stored lanes of the left halves that
\* differ from the lanes they replace, wt and ws lanes being different
C25_Witness ==
    /\ Returned /\ Last.op = "ilvl_df" /\ Last.wd = Last.ws
    /\ Last.df = DF_BYTE
    /\ \A i \in HalfLanes :
          /\ LanePost(Last.wd, 2 * i) = LanePre(Last.wt, 8 + i)
          /\ LanePost(Last.wd, 2 * i + 1) = LanePre(Last.ws, 8 + i)
          /\ LanePre(Last.wt, 8 + i) # LanePre(Last.ws, 8 + i)
          /\ LanePost(Last.wd, 2 * i) # LanePre(Last.wd, 2 * i)

\* C26: for every format with n lanes and every i in [0, n/2), pckev
\* stores wd[i] = wt[2i] and wd[n/2+i] = ws[2i]; pckod stores
\* wd[i] = wt[2i+1] and wd[n/2+i] = ws[2i+1], all of the registers as
\* they were before the call
C26_Pack ==
    (Returned /\ Last.op \in PackOps) =>
        LET o == IF Last.op = "pckod_df" THEN 1 ELSE 0
        IN  \A i \in HalfLanes :
                /\ LanePost(Last.wd, i) = LanePre(Last.wt, 2 * i + o)
                /\ LanePost(Last.wd, HalfCount + i)
                       = LanePre(Last.ws, 2 * i + o)

\* pckod with wd = wt at df = half has packed odd lanes that differ from
\* their even neighbours
C26_Witness ==
    /\ Returned /\ Last.op = "pckod_df" /\ Last.wd = Last.wt
    /\ Last.df = DF_HALF
    /\ \A i \in HalfLanes :
          /\ LanePost(Last.wd, i) = LanePre(Last.wt, 2 * i + 1)
          /\ LanePost(Last.wd, 4 + i) = LanePre(Last.ws, 2 * i + 1)
          /\ LanePre(Last.wt, 2 * i + 1) # LanePre(Last.wt, 2 * i)
          /\ LanePre(Last.ws, 2 * i + 1) # LanePre(Last.ws, 2 * i)

(***************************************************************************)
(* Properties of pack followed by interleave (SpecRoundTrip).              *)
(***************************************************************************)
\* the four instructions have returned
RoundTripDone == pc = 5 /\ exception = "none"

\* C27: with E = pckev(ws = A, wt = B) and O = pckod(ws = A, wt = B),
\* ilvr(ws = O, wt = E) is B and ilvl(ws = O, wt = E) is A, lane for lane,
\* in every format
C27_PackInterleaveRoundTrip ==
    RoundTripDone => fpr[Reg.R] = fpr[Reg.B] /\ fpr[Reg.L] = fpr[Reg.A]

\* the round trip has run at df = word on registers A and B that differ
\* in every byte, through E and O that are neither A nor B, and the
\* registers that now hold B and A held something else before
C27_Witness ==
    /\ RoundTripDone /\ Last.df = DF_WORD
    /\ \A j \in 0..15 : fpr[Reg.A][j] # fpr[Reg.B][j]
    /\ fpr[Reg.E] \notin {fpr[Reg.A], fpr[Reg.B]}
    /\ fpr[Reg.O] \notin {fpr[Reg.A], fpr[Reg.B]}
    /\ fpr[Reg.R] = fpr[Reg.B] /\ fpr[Reg.L] = fpr[Reg.A]
    /\ pre.fpr[Last.wd] # fpr[Last.wd]

(***************************************************************************)
(* The order of the assignments inside a shape helper (SpecShapeOrder).    *)
(***************************************************************************)
\* the bytes an assignment covers
BytesOf(ev) == ev.lo..(ev.lo + ev.n - 1)

\* the positions in the log of the stores to a register and of the
\* assignments to scratch storage (wx or v)
StorePositions == {i \in 1..Len(log) : log[i].to = "fpr"}
ScratchPositions == {i \in 1..Len(log) : log[i].to # "fpr"}

\* every assignment to scratch storage precedes every store to a register
ScratchBeforeStores ==
    \A i \in ScratchPositions, j \in StorePositions : i < j

\* the stores are to wd and cover each of its bytes once
StoresCoverDestinationOnce ==
    /\ \A j \in StorePositions : log[j].reg = Last.wd
    /\ \A b \in 0..15 :
          Cardinality({j \in StorePositions : b \in BytesOf(log[j])}) = 1

\* the helpers that build their result in the scratch register wx
ScratchOps == ShapeOps \ {"sld_df", "splat_df"}

\* every byte of wx is assigned, then wx is moved to wd by the two
\* doubleword stores of msa_move_v
ScratchThenMove ==
    /\ ScratchBeforeStores
    /\ \A i \in ScratchPositions : log[i].to = "wx"
    /\ UNION {BytesOf(log[i]) : i \in ScratchPositions} = 0..15
    /\ StoresCoverDestinationOnce
    /\ \A j \in StorePositions : log[j].n = 8

\* slice after slice, the 2s bytes of the slice of ws and wd are assigned
\* to v and then the s bytes of the slice of wd are stored
SliceBySlice ==
    LET s == 16 \div (2 ^ Last.df)
    IN  /\ Len(log) = (2 ^ Last.df) * 3 * s
        /\ \A k \in 0..(2 ^ Last.df - 1) :
              /\ \A j \in 1..(2 * s) : log[3 * s * k + j].to = "v"
              /\ UNION {BytesOf(log[3 * s * k + j]) : j \in 1..(2 * s)}
                     = 0..(2 * s - 1)
              /\ \A j \in 1..s :
                     log[3 * s * k + 2 * s + j]
                         = Assigned("fpr", Last.wd, s * k + j - 1, 1)

\* each lane is stored in wd directly; there is no scratch storage
LaneByLane ==
    /\ ScratchPositions = {}
    /\ StoresCoverDestinationOnce
    /\ \A j \in StorePositions : log[j].n = LaneBytes(Last.df)

StoredLane(c) == c.u5 % DF_ELEMENTS(c.df, MSA_WRLEN)

\* the bytes of lane i of format df
LaneRange(df, i) == (i * LaneBytes(df))..((i + 1) * LaneBytes(df) - 1)

\* the store of the instruction at pc: afterwards the bytes of the lane
\* are the low W bits of the value and the other bytes of the register are
\* those of before
StoreReplacesLane ==
    LET c == prog[pc]
        lo == StoredLane(c) * LaneBytes(c.df)
    IN  /\ exception' = "none"
        /\ \A j \in LaneRange(c.df, StoredLane(c)) :
               fpr'[c.wd][j] = gpr[c.rt][j - lo + 1]
        /\ \A j \in (0..15) \ LaneRange(c.df, StoredLane(c)) :
               fpr'[c.wd][j] = fpr[c.wd][j]

\* C29: a store of value v to lane i of register r at format df replaces
\* the W bits of that lane by the low W bits of v and leaves every other
\* lane of r as it was; a helper invocation changes no vector register
\* other than wd, no general-purpose register and, msamodify apart, no
\* flag (msair)
C29_StoreAndFrame ==
    [][/\ prog[pc].op = "store_wr_elem" => StoreReplacesLane
       /\ \A r \in (0..31) \ {prog[pc].wd} : fpr'[r] = fpr[r]
       /\ gpr' = gpr
       /\ msair' = msair]_vars

\* a store at df = half with index 13 has replaced lane 5 by the low 16
\* bits of a value with other bits set above them, changing both bytes of
\* the lane and nothing else
C29_Witness ==
    /\ Returned /\ Last.op = "store_wr_elem"
    /\ Last.df = DF_HALF /\ Last.u5 = 13
    /\ gpr[Last.rt] = SampleGpr[10]
    /\ fpr[Last.wd][10] = 253 /\ fpr[Last.wd][11] = 255
    /\ pre.fpr[Last.wd][10] # 253 /\ pre.fpr[Last.wd][11] # 255
    /\ \A j \in (0..15) \ {10, 11} : fpr[Last.wd][j] = pre.fpr[Last.wd][j]
    /\ written = {<<Last.wd, 10>>, <<Last.wd, 11>>}

(***************************************************************************)
(* Helpers invoked with an invalid data format (specification SpecBadDf).  *)
(***************************************************************************)
\* the helpers that take no df
NoDfOps ==
    {"andi_b", "ori_b", "nori_b", "xori_b", "bmnzi_b", "bmzi_b", "bseli_b"}

\* the last helper was invoked with a df outside {0, 1, 2, 3}, or is shf
\* invoked with df = double
InvalidDf ==
    /\ pc > 1
    /\ Last.op \notin NoDfOps
    /\ Last.df > DF_DOUBLE \/ (Last.op = "shf_df" /\ Last.df = DF_DOUBLE)

\* the helper was left by a failed assertion before any store and before
\* the update of msamodify
AbortedUntouched ==
    /\ exception = "abort"
    /\ written = {}
    /\ fpr = pre.fpr
    /\ msamodify = pre.msamodify

\* the helpers whose kernel is a switch on df
SwitchOps == ShapeOps \cup {"ldi_df"}

=============================================================================
